---- MODULE Spec2Model ----
(***************************************************************************)
(* Model of the IRI retrieval pipeline of iri_model:                       *)
(*   _downloader.py  run_iri_profile (retry wrapper) and                   *)
(*                   _run_iri_profile_selenium (one submit attempt)        *)
(*   _getdata.py     extract_iri_profile_data (profile parser)             *)
(*   getdata.py      getdata (one profile per timestep, nearest row)       *)
(* The browser session, the remote service, the network and the file       *)
(* system are the environment: every call into them either succeeds or     *)
(* raises, chosen nondeterministically.                                    *)
(***************************************************************************)
EXTENDS Integers, Sequences, FiniteSets, TLC

(***************************************************************************)
(* Bounds of the model and constants of the program.                       *)
(***************************************************************************)
\* largest max_retries drawn for a call of run_iri_profile
MaxRetries == 3

\* f"{x:.6f}": six decimals are written for lat and lon
Micro == 1000000
\* f"{x:.1f}": one decimal is written for start, stop and step
Tenth == 10
\* min(2000, min_alt), min(2000, max_alt)
AltCeil == 2000
\* min(500, step_alt)
StepCeil == 500
\* max(1, ...)
StepFloor == 1
\* longitude += 360, longitude % 360
FullTurn == 360
\* latitude clamp of lines 44-45
LatLimit == 90
\* wait_time = 5 * (attempt + 1)
BackoffUnit == 5
\* for _ in range(10): validation poll
ValidationChecks == 10
\* for i in range(30): submit-button poll
SubmitChecks == 30

(***************************************************************************)
(* Numbers.  A coordinate in degrees is [int |-> i, frac |-> f], standing  *)
(* for i + f / FracUnit with 0 <= f < FracUnit: one decimal digit more     *)
(* than the form receives, so that the rounding of the format is visible.  *)
(* An altitude in km is an integer count of 1/AltUnit km, again one digit  *)
(* more than the form receives.                                            *)
(***************************************************************************)
FracUnit == 10 * Micro
AltUnit == 10 * Tenth

D(i, f) == [int |-> i, frac |-> f]
Deg(i) == D(i, 0)

LtD(a, b) == a.int < b.int \/ (a.int = b.int /\ a.frac < b.frac)
LeD(a, b) == a = b \/ LtD(a, b)

\* Python min(a, b) and max(a, b): the first argument unless the second is
\* strictly smaller (larger)
PyMinD(a, b) == IF LtD(b, a) THEN b ELSE a
PyMaxD(a, b) == IF LtD(a, b) THEN b ELSE a
PyMin(a, b) == IF b < a THEN b ELSE a
PyMax(a, b) == IF b > a THEN b ELSE a

\* x + 360 and x % 360 (Python's %: the result has the sign of the divisor)
AddTurn(x) == D(x.int + FullTurn, x.frac)
ModTurn(x) == D(x.int % FullTurn, x.frac)

\* f"{v:.6f}": the decimal string written for v, as [neg, int, micro] standing
\* for (-1)^neg * (int + micro / Micro).  The magnitude is rounded to six
\* decimals, halves upward (no input of the model lies on a half).
Magnitude(v) ==
    IF v.int >= 0 THEN v
    ELSE IF v.frac = 0 THEN D(-v.int, 0)
    ELSE D(-v.int - 1, FracUnit - v.frac)

Fixed6(v) ==
    LET m == Magnitude(v)
        r == (m.frac + 5) \div 10
    IN  [neg |-> v.int < 0,
         int |-> IF r = Micro THEN m.int + 1 ELSE m.int,
         micro |-> IF r = Micro THEN 0 ELSE r]

\* f"{x:.1f}": the decimal string written for an altitude x (in 1/AltUnit km),
\* as a signed count of tenths of a km
Fixed1(x) ==
    IF x >= 0 THEN (x + 5) \div 10 ELSE -((-x + 5) \div 10)

(***************************************************************************)
(* Normalisation of the query (lines 44-47 and 68-72).                     *)
(***************************************************************************)
\* if latitude < -90: latitude = -90 ; if latitude > 90: latitude = 90
ClampLatitude(latitude) ==
    LET l1 == IF LtD(latitude, Deg(-LatLimit)) THEN Deg(-LatLimit) ELSE latitude
    IN  IF LtD(Deg(LatLimit), l1) THEN Deg(LatLimit) ELSE l1

\* if longitude < 0: longitude += 360 ; if longitude > 360: longitude %= 360
WrapLongitude(longitude) ==
    LET l1 == IF LtD(longitude, Deg(0)) THEN AddTurn(longitude) ELSE longitude
    IN  IF LtD(Deg(FullTurn), l1) THEN ModTurn(l1) ELSE l1

\* lat_val = max(-89.9, min(89.9, latitude))
LatValLimit == D(LatLimit - 1, 9 * Micro)
lat_val(latitude) ==
    PyMaxD(D(-LatLimit, Micro), PyMinD(LatValLimit, latitude))

\* lon_val = longitude % 360
lon_val(longitude) == ModTurn(longitude)

\* min_alt_val = max(0, min(2000, min_alt)), and the same for max_alt
alt_val(alt) == PyMax(0, PyMin(AltCeil * AltUnit, alt))

\* a step clamped from above only
step_alt_val_unfloored(step_alt) == PyMin(StepCeil * AltUnit, step_alt)

\* step_alt_val = max(1, min(500, step_alt))
step_alt_val(step_alt) == PyMax(StepFloor * AltUnit, PyMin(StepCeil * AltUnit, step_alt))

\* the six safe_fill calls of lines 88-93, in order
Fields == <<"lat", "lon", "start", "stop", "step", "datetime">>

\* the string safe_fill writes for a field, from the attempt's locals
FieldValue(name, q) ==
    CASE name = "lat" -> Fixed6(lat_val(q.latitude))
      [] name = "lon" -> Fixed6(lon_val(q.longitude))
      [] name = "start" -> [tenths |-> Fixed1(alt_val(q.min_alt))]
      [] name = "stop" -> [tenths |-> Fixed1(alt_val(q.max_alt))]
      [] name = "step" -> [tenths |-> Fixed1(step_alt_val(q.step_alt))]
      [] name = "datetime" -> [stamp |-> q.date_time]

(***************************************************************************)
(* Inputs drawn for a call of run_iri_profile.                             *)
(***************************************************************************)
\* -0.0000004, 0, 359.9999996, 360, 370.5, -400 and 725.25 degrees
Longitudes ==
    {D(-1, 9999996), Deg(0), D(359, 9999996), Deg(360), D(370, 5000000),
     Deg(-400), D(725, 2500000)}

\* -95, -89.95, 12.3456784, 90 and 91.5 degrees
Latitudes ==
    {Deg(-95), D(-90, 500000), D(12, 3456784), Deg(90), D(91, 5000000)}

\* -50, 0, 1999.96 and 2500 km
AltBounds == {-50 * AltUnit, 0, 199996, 2500 * AltUnit}

\* -5, 0.04, 50 and 600 km
AltSteps == {-5 * AltUnit, 4, 50 * AltUnit, 600 * AltUnit}

\* max_retries = 0 and max_retries = -1 make range(max_retries) empty
RetryCounts == -1..MaxRetries

\* The defaults of run_iri_profile: min_alt=0, max_alt=2000.0, step_alt=50.0
DefaultQuery ==
    [date_time |-> "t0", longitude |-> Deg(0), latitude |-> D(12, 3456784),
     min_alt |-> 0, max_alt |-> AltCeil * AltUnit, step_alt |-> 50 * AltUnit,
     max_retries |-> 1]

\* The attempt normalises each field on its own and never reads max_retries,
\* and the retry wrapper passes the query through unread: the coordinates are
\* drawn in all combinations, the altitude grids in all combinations, and the
\* retry counts, each with the other arguments at their defaults.
CoordinateQueries ==
    {[DefaultQuery EXCEPT !.longitude = lon, !.latitude = lat] :
        lon \in Longitudes, lat \in Latitudes}

AltitudeQueries ==
    {[DefaultQuery EXCEPT !.min_alt = lo, !.max_alt = hi, !.step_alt = st] :
        lo \in AltBounds, hi \in AltBounds, st \in AltSteps}

RetryQueries == {[DefaultQuery EXCEPT !.max_retries = n] : n \in RetryCounts}

Queries == CoordinateQueries \cup AltitudeQueries \cup RetryQueries

(***************************************************************************)
(* State.                                                                  *)
(***************************************************************************)
VARIABLES
    args,       \* the arguments of the running call of run_iri_profile
    rpc,        \* position in run_iri_profile
    attempt,    \* loop variable of run_iri_profile
    attempts,   \* number of calls of _run_iri_profile_selenium made
    sleeps,     \* the backoff sleeps taken (seconds), in order
    status,     \* value returned by the last attempt (-1: none yet)
    ret,        \* value returned by run_iri_profile (-1: not returned)
    spc,        \* position in _run_iri_profile_selenium
    q,          \* the attempt's locals: latitude, longitude after lines 44-47
    driver,     \* "None", "open" (session acquired), "quit" (quit() invoked)
    form,       \* the fields of the remote form that were set, with their strings
    filled,     \* the fields safe_fill was called for, in order
    soft,       \* the selection steps that failed and were only logged
    faultAt,    \* the step of this attempt that raised ("none" if none)
    poll,       \* loop variable of the running poll
    cleared,    \* the validation poll found no error indicator
    triggers,   \* the submissions triggered in this attempt ("click", "force")
    page,       \* what page_source showed: the link and the length of <pre>
    pending,    \* the value the attempt is returning through finally (-1: none)
    scratch,    \* the file output_filename
    sessions,   \* sessions acquired on which quit() was not invoked yet
    file,       \* the file extract_iri_profile_data is called on
    ppc,        \* position in extract_iri_profile_data
    time_str,   \* its local time_str (NoTime: None)
    extracted_data, \* its local extracted_data: the token lists appended so far
    result,     \* what it returned or raised
    gargs,      \* the arguments of the running call of getdata
    geom,       \* what geom2rmlatmlt gives for them: alt (km), lat, lon per timestep
    gpc,        \* position in getdata
    arrays,     \* its locals alt, lat and lon after lines 45-50
    loop,       \* its loop variable i, counted from 1
    dict_return, \* its local dict_return: a list per key
    dict_data,  \* what extract_iri_profile_data gave for the current timestep
    calls,      \* the calls of run_iri_profile made, in order
    written,    \* the text in output_filename and the timestep it was written for
    greturn     \* what getdata returned or raised

runVars == <<args, rpc, attempt, attempts, sleeps, status, ret>>
attemptVars == <<q, driver, form, filled, soft, faultAt, poll, cleared, triggers, page, pending>>
vars == <<args, rpc, attempt, attempts, sleeps, status, ret, spc, q, driver, form,
          filled, soft, faultAt, poll, cleared, triggers, page, pending, scratch,
          sessions, file, ppc, time_str, extracted_data, result, gargs, geom, gpc,
          arrays, loop, dict_return, dict_data, calls, written, greturn>>
parserVars == <<file, ppc, time_str, extracted_data, result>>
clientVars == <<args, rpc, attempt, attempts, sleeps, status, ret, spc, q, driver,
                form, filled, soft, faultAt, poll, cleared, triggers, page, pending,
                scratch, sessions>>
aggVars == <<gargs, geom, gpc, arrays, loop, dict_return, dict_data, calls, written,
             greturn>>

NoPage == [link |-> "none", pre |-> -1]

\* time_str = None, and a call that returned None or raised
NoTime == [year |-> 0, month |-> 0, day |-> 0, hour |-> 0, minute |-> 0, second |-> 0]
NoTable(kind, e) == [kind |-> kind, error |-> e, time_str |-> NoTime, rows |-> << >>]
NoFile == [exists |-> FALSE, txt |-> FALSE, readable |-> FALSE, lines |-> << >>]

\* no call of extract_iri_profile_data is running
ParserIdle ==
    /\ file = NoFile
    /\ ppc = "idle"
    /\ time_str = NoTime
    /\ extracted_data = << >>
    /\ result = NoTable("idle", "")

\* the keys of dict_return (lines 54-64), and its lists on entry of the loop
OutputKeys == <<"times", "altitude", "Ne", "O+", "N+", "H+", "He+", "O2+", "NO+">>
EmptyLists == [k \in {OutputKeys[n] : n \in 1..Len(OutputKeys)} |-> << >>]

NoArrays == [alt |-> << >>, lat |-> << >>, lon |-> << >>]
NoText == [by |-> 0, lines |-> << >>]
NoReturn == [kind |-> "running", error |-> ""]

\* no call of getdata is running
AggIdle ==
    /\ gargs = [times |-> << >>, rmlatmlt |-> [ndim |-> 2, shape |-> <<0, 3>>],
                res_alt |-> 0]
    /\ geom = << >>
    /\ gpc = "idle"
    /\ arrays = NoArrays
    /\ loop = 0
    /\ dict_return = EmptyLists
    /\ dict_data = NoTable("idle", "")
    /\ calls = << >>
    /\ written = NoText
    /\ greturn = NoReturn

\* the attempt's state on entry of _run_iri_profile_selenium (driver = None)
FreshAttempt ==
    /\ driver = "None"
    /\ form = << >>
    /\ filled = << >>
    /\ soft = {}
    /\ faultAt = "none"
    /\ poll = 0
    /\ cleared = FALSE
    /\ triggers = << >>
    /\ page = NoPage
    /\ pending = -1

\* the same, as the effect of entering the function
EnterAttempt ==
    /\ driver' = "None"
    /\ form' = << >>
    /\ filled' = << >>
    /\ soft' = {}
    /\ faultAt' = "none"
    /\ poll' = 0
    /\ cleared' = FALSE
    /\ triggers' = << >>
    /\ page' = NoPage
    /\ pending' = -1

\* run_iri_profile is called with the given arguments
ClientCalled(a) ==
    /\ args = a
    /\ rpc = "loop"
    /\ attempt = 0
    /\ attempts = 0
    /\ sleeps = << >>
    /\ status = -1
    /\ ret = -1
    /\ spc = "idle"
    /\ q = a
    /\ FreshAttempt
    /\ scratch = "absent"
    /\ sessions = 0

\* no call of run_iri_profile is running, and output_filename is as given
ClientAtRest(output) ==
    /\ args = DefaultQuery
    /\ rpc = "idle"
    /\ attempt = 0
    /\ attempts = 0
    /\ sleeps = << >>
    /\ status = -1
    /\ ret = -1
    /\ spc = "idle"
    /\ q = DefaultQuery
    /\ FreshAttempt
    /\ scratch = output
    /\ sessions = 0

\* no call of run_iri_profile is running
ClientIdle == ClientAtRest("absent")

Init ==
    /\ \E a \in Queries : ClientCalled(a)
    /\ ParserIdle
    /\ AggIdle

(***************************************************************************)
(* run_iri_profile: the retry wrapper (lines 210-241).                     *)
(***************************************************************************)
\* wait_time = 5 * (attempt + 1)
WaitTime(a) == BackoffUnit * (a + 1)

\* a wrapper that also sleeps after the last attempt
SleepsAfterEvery(a, max_retries) == a < max_retries

\* if attempt < max_retries - 1
SleepsAfter(a, max_retries) == a < max_retries - 1

\* a loop that runs once too often
InRangeInclusive(a, max_retries) == a <= max_retries

\* a loop that runs twice as often
InRangeDoubled(a, max_retries) == a < 2 * max_retries

\* a loop whose body runs before its test
InRangeAfterFirst(a, max_retries) == a = 0 \/ a < max_retries

\* for attempt in range(max_retries): another attempt is due
InRange(a, max_retries) == a < max_retries

\* line 216: the next attempt is called
RunAttempt ==
    /\ rpc = "loop"
    /\ InRange(attempt, args.max_retries)
    /\ rpc' = "submit"
    /\ spc' = "normalize"
    /\ attempts' = attempts + 1
    /\ q' = args
    /\ EnterAttempt
    /\ UNCHANGED <<args, attempt, sleeps, status, ret, scratch, sessions>>
    /\ UNCHANGED <<parserVars, aggVars>>

\* lines 239-241: the loop is over, return 1
RunExhausted ==
    /\ rpc = "loop"
    /\ ~InRange(attempt, args.max_retries)
    /\ rpc' = "done"
    /\ ret' = 1
    /\ UNCHANGED <<args, attempt, attempts, sleeps, status, spc, attemptVars,
                   scratch, sessions>>
    /\ UNCHANGED <<parserVars, aggVars>>

\* lines 231-232: if status == 0: return 0
RunSuccess ==
    /\ rpc = "status"
    /\ status = 0
    /\ rpc' = "done"
    /\ ret' = 0
    /\ UNCHANGED <<args, attempt, attempts, sleeps, status, spc, attemptVars,
                   scratch, sessions>>
    /\ UNCHANGED <<parserVars, aggVars>>

\* lines 234-237: a failed attempt that is not the last one is followed by a sleep
RunBackoff ==
    /\ rpc = "status"
    /\ status # 0
    /\ SleepsAfter(attempt, args.max_retries)
    /\ sleeps' = Append(sleeps, WaitTime(attempt))
    /\ attempt' = attempt + 1
    /\ rpc' = "loop"
    /\ UNCHANGED <<args, attempts, status, ret, spc, attemptVars, scratch,
                   sessions>>
    /\ UNCHANGED <<parserVars, aggVars>>

\* line 234 false: the last failed attempt is followed by no sleep
RunNoBackoff ==
    /\ rpc = "status"
    /\ status # 0
    /\ ~SleepsAfter(attempt, args.max_retries)
    /\ attempt' = attempt + 1
    /\ rpc' = "loop"
    /\ UNCHANGED <<args, attempts, sleeps, status, ret, spc, attemptVars,
                   scratch, sessions>>
    /\ UNCHANGED <<parserVars, aggVars>>

(***************************************************************************)
(* _run_iri_profile_selenium: one attempt (lines 41-189).                  *)
(***************************************************************************)
\* length of the stripped <pre> text that the inline path requires to exceed
MinInline == 100

\* what the rendered page can hold: a Raw Output/Download link (with or
\* without href) and a <pre> whose stripped text has the given length (-1: none)
PageLinks == {"none", "nohref", "href"}
PreLengths == {-1, 0, MinInline, MinInline + 1}

\* an exception raised inside the try block at the given step: control moves
\* to the except clause of line 184
Raise(step) ==
    /\ spc' = "except"
    /\ faultAt' = step

\* lines 44-47
Normalize ==
    /\ spc = "normalize"
    /\ q' = [q EXCEPT !.latitude = ClampLatitude(@), !.longitude = WrapLongitude(@)]
    /\ spc' = "start"
    /\ UNCHANGED <<runVars, driver, form, filled, soft, faultAt, poll, cleared,
                   triggers, page, pending, scratch, sessions>>
    /\ UNCHANGED <<parserVars, aggVars>>

\* lines 50-60: webdriver.Chrome(...) returns the session or raises
StartSession ==
    /\ spc = "start"
    /\ \E ok \in BOOLEAN :
        IF ok
        THEN /\ driver' = "open"
             /\ sessions' = sessions + 1
             /\ spc' = "navigate"
             /\ UNCHANGED faultAt
        ELSE /\ Raise("start")
             /\ UNCHANGED <<driver, sessions>>
    /\ UNCHANGED <<runVars, q, form, filled, soft, poll, cleared, triggers, page,
                   pending, scratch>>
    /\ UNCHANGED <<parserVars, aggVars>>

\* line 61: driver.get(IRI_BASE_URL)
Navigate ==
    /\ spc = "navigate"
    /\ \E ok \in BOOLEAN :
        IF ok
        THEN spc' = "fill" /\ UNCHANGED faultAt
        ELSE Raise("navigate")
    /\ UNCHANGED <<runVars, q, driver, form, filled, soft, poll, cleared, triggers,
                   page, pending, scratch, sessions>>
    /\ UNCHANGED <<parserVars, aggVars>>

\* the position after the safe_fill call for the n-th field returned
AfterFill(n) == IF n = Len(Fields) THEN "model" ELSE "fill"

\* lines 74-93: the next safe_fill call; find_element or execute_script may
\* raise, and safe_fill catches nothing
SafeFill ==
    /\ spc = "fill"
    /\ LET n == Len(filled) + 1
           name == Fields[n]
       IN  /\ filled' = Append(filled, name)
           /\ \E ok \in BOOLEAN :
                IF ok
                THEN /\ form' = (name :> FieldValue(name, q)) @@ form
                     /\ spc' = AfterFill(n)
                     /\ UNCHANGED faultAt
                ELSE /\ Raise("fill")
                     /\ UNCHANGED form
    /\ UNCHANGED <<runVars, q, driver, soft, poll, cleared, triggers, page,
                   pending, scratch, sessions>>
    /\ UNCHANGED <<parserVars, aggVars>>

\* the version step without the handler of line 109: a fault leaves the try
\* block of the attempt
SelectModelFatal ==
    /\ spc = "model"
    /\ \E r \in {"clicked", "absent", "fault"} :
        IF r = "fault"
        THEN Raise("model") /\ UNCHANGED soft
        ELSE /\ soft' = IF r = "clicked" THEN soft ELSE soft \cup {"model"}
             /\ spc' = "types"
             /\ UNCHANGED faultAt
    /\ UNCHANGED <<runVars, q, driver, form, filled, poll, cleared, triggers, page,
                   pending, scratch, sessions>>
    /\ UNCHANGED <<parserVars, aggVars>>

\* lines 96-110: the version radio button is clicked, or is absent (for-else),
\* or the step raises and line 109 catches it
SelectModel ==
    /\ spc = "model"
    /\ \E r \in {"clicked", "absent", "fault"} :
        soft' = IF r = "clicked" THEN soft ELSE soft \cup {"model"}
    /\ spc' = "types"
    /\ UNCHANGED <<runVars, q, driver, form, filled, faultAt, poll, cleared,
                   triggers, page, pending, scratch, sessions>>
    /\ UNCHANGED <<parserVars, aggVars>>

\* lines 113-122: time type and coordinate type; line 121 catches a fault
SelectTypes ==
    /\ spc = "types"
    /\ \E ok \in BOOLEAN :
        soft' = IF ok THEN soft ELSE soft \cup {"types"}
    /\ spc' = "validate"
    /\ poll' = 0
    /\ UNCHANGED <<runVars, q, driver, form, filled, faultAt, cleared, triggers,
                   page, pending, scratch, sessions>>
    /\ UNCHANGED <<parserVars, aggVars>>

\* a loop of one check more than range(limit)
MoreChecksInclusive(p, limit) == p + 1 <= limit

\* for _ in range(limit): after check p (counted from 0) another check is due
MoreChecks(p, limit) == p + 1 < limit

\* a submit poll without its else branch: the attempt goes on to the wait
AfterSubmitChecksNoElse == "wait"

\* lines 140-142: the submit poll that ends without break enters its else
\* branch
AfterSubmitChecks == "force"

\* lines 125-129: one check of the validation-error indicator; the loop ends
\* at the first check that finds none, or after ValidationChecks checks
ValidationPoll ==
    /\ spc = "validate"
    /\ \E r \in {"clear", "error", "fault"} :
        CASE r = "clear" ->
                /\ cleared' = TRUE
                /\ spc' = "monitor"
                /\ poll' = 0
                /\ UNCHANGED faultAt
          [] r = "error" ->
                /\ spc' = IF MoreChecks(poll, ValidationChecks) THEN "validate" ELSE "monitor"
                /\ poll' = IF MoreChecks(poll, ValidationChecks) THEN poll + 1 ELSE 0
                /\ UNCHANGED <<cleared, faultAt>>
          [] r = "fault" ->
                /\ Raise("validate")
                /\ UNCHANGED <<cleared, poll>>
    /\ UNCHANGED <<runVars, q, driver, form, filled, soft, triggers, page, pending,
                   scratch, sessions>>
    /\ UNCHANGED <<parserVars, aggVars>>

\* lines 133-139: one check of the submit button; an enabled button is clicked
\* and the loop ends, a disabled one is checked again one second later
SubmitPoll ==
    /\ spc = "monitor"
    /\ \E r \in {"enabled", "clickfault", "disabled", "fault"} :
        CASE r = "enabled" ->
                /\ triggers' = Append(triggers, "click")
                /\ spc' = "wait"
                /\ poll' = 0
                /\ UNCHANGED faultAt
          [] r = "clickfault" ->
                /\ Raise("click")
                /\ UNCHANGED <<triggers, poll>>
          [] r = "disabled" ->
                /\ spc' = IF MoreChecks(poll, SubmitChecks) THEN "monitor"
                          ELSE AfterSubmitChecks
                /\ poll' = IF MoreChecks(poll, SubmitChecks) THEN poll + 1 ELSE 0
                /\ UNCHANGED <<triggers, faultAt>>
          [] r = "fault" ->
                /\ Raise("monitor")
                /\ UNCHANGED <<triggers, poll>>
    /\ UNCHANGED <<runVars, q, driver, form, filled, soft, cleared, page, pending,
                   scratch, sessions>>
    /\ UNCHANGED <<parserVars, aggVars>>

\* lines 140-142: the for-else branch forces the submission through a script
ForceSubmit ==
    /\ spc = "force"
    /\ \E ok \in BOOLEAN :
        IF ok
        THEN /\ triggers' = Append(triggers, "force")
             /\ spc' = "wait"
             /\ UNCHANGED faultAt
        ELSE /\ Raise("force")
             /\ UNCHANGED triggers
    /\ UNCHANGED <<runVars, q, driver, form, filled, soft, poll, cleared, page,
                   pending, scratch, sessions>>
    /\ UNCHANGED <<parserVars, aggVars>>

\* lines 146-148: WebDriverWait(driver, 60).until(...) returns or times out
WaitResult ==
    /\ spc = "wait"
    /\ \E ok \in BOOLEAN :
        IF ok
        THEN spc' = "reveal" /\ UNCHANGED faultAt
        ELSE Raise("wait")
    /\ UNCHANGED <<runVars, q, driver, form, filled, soft, poll, cleared, triggers,
                   page, pending, scratch, sessions>>
    /\ UNCHANGED <<parserVars, aggVars>>

\* lines 151-156: the results tab is clicked through a script
RevealResults ==
    /\ spc = "reveal"
    /\ \E ok \in BOOLEAN :
        IF ok
        THEN spc' = "read" /\ UNCHANGED faultAt
        ELSE Raise("reveal")
    /\ UNCHANGED <<runVars, q, driver, form, filled, soft, poll, cleared, triggers,
                   page, pending, scratch, sessions>>
    /\ UNCHANGED <<parserVars, aggVars>>

\* lines 159-163 and 174: page_source is read and searched
ReadPage ==
    /\ spc = "read"
    /\ \/ /\ page' \in [link : PageLinks, pre : PreLengths]
          /\ spc' = "resolve"
          /\ UNCHANGED faultAt
       \/ /\ Raise("read")
          /\ UNCHANGED page
    /\ UNCHANGED <<runVars, q, driver, form, filled, soft, poll, cleared, triggers,
                   pending, scratch, sessions>>
    /\ UNCHANGED <<parserVars, aggVars>>

\* if link and link.get("href")
HasTarget(p) == p.link = "href"

\* a test that takes a <pre> of exactly 100 characters
InlineUsableAtLeast(p) == p.pre >= MinInline

\* if pre and len(pre.text.strip()) > 100
InlineUsable(p) == p.pre > MinInline

\* lines 164, 173-182: the path that saves the result is chosen; with neither
\* a link nor a usable <pre> the attempt returns 1
Resolve ==
    /\ spc = "resolve"
    /\ IF HasTarget(page)
       THEN spc' = "fetch" /\ UNCHANGED pending
       ELSE IF InlineUsable(page)
            THEN spc' = "writepre" /\ UNCHANGED pending
            ELSE spc' = "finally" /\ pending' = 1
    /\ UNCHANGED <<runVars, q, driver, form, filled, soft, faultAt, poll, cleared,
                   triggers, page, scratch, sessions>>
    /\ UNCHANGED <<parserVars, aggVars>>

\* a fetch whose failure is answered with the inline text
FetchFallsBack ==
    /\ spc = "fetch"
    /\ \E ok \in BOOLEAN :
        IF ok
        THEN spc' = "writeraw" /\ UNCHANGED faultAt
        ELSE /\ faultAt' = "fetch"
             /\ spc' = IF InlineUsable(page) THEN "writepre" ELSE "except"
    /\ UNCHANGED <<runVars, q, driver, form, filled, soft, poll, cleared, triggers,
                   page, pending, scratch, sessions>>
    /\ UNCHANGED <<parserVars, aggVars>>

\* lines 165-168: requests.get and raise_for_status
Fetch ==
    /\ spc = "fetch"
    /\ \E ok \in BOOLEAN :
        IF ok
        THEN spc' = "writeraw" /\ UNCHANGED faultAt
        ELSE Raise("fetch")
    /\ UNCHANGED <<runVars, q, driver, form, filled, soft, poll, cleared, triggers,
                   page, pending, scratch, sessions>>
    /\ UNCHANGED <<parserVars, aggVars>>

\* open(output_filename, "w") and write: on a fault the file is untouched (open
\* raised) or left truncated (write raised)
WriteScratch(content) ==
    \/ /\ scratch' = content
       /\ pending' = 0
       /\ spc' = "finally"
       /\ UNCHANGED faultAt
    \/ /\ scratch' \in {scratch, "truncated"}
       /\ Raise("write")
       /\ UNCHANGED pending

\* lines 169-172: the fetched text is saved, return 0
WriteRaw ==
    /\ spc = "writeraw"
    /\ WriteScratch("raw")
    /\ UNCHANGED <<runVars, q, driver, form, filled, soft, poll, cleared, triggers,
                   page, sessions>>
    /\ UNCHANGED <<parserVars, aggVars>>

\* lines 176-179: the inline text is saved, return 0
WriteInline ==
    /\ spc = "writepre"
    /\ WriteScratch("inline")
    /\ UNCHANGED <<runVars, q, driver, form, filled, soft, poll, cleared, triggers,
                   page, sessions>>
    /\ UNCHANGED <<parserVars, aggVars>>

\* lines 184-186: except Exception: return 1 (the loop variable of an
\* interrupted poll is not used again)
Except ==
    /\ spc = "except"
    /\ pending' = 1
    /\ poll' = 0
    /\ spc' = "finally"
    /\ UNCHANGED <<runVars, q, driver, form, filled, soft, faultAt, cleared,
                   triggers, page, scratch, sessions>>
    /\ UNCHANGED <<parserVars, aggVars>>

\* the attempt returns its pending value to line 231
Return ==
    /\ rpc' = "status"
    /\ status' = pending
    /\ UNCHANGED faultAt

\* an exception leaves the attempt and, run_iri_profile having no handler,
\* the call of run_iri_profile as well
Propagate(step) ==
    /\ rpc' = "raised"
    /\ faultAt' = step
    /\ UNCHANGED status

\* quit() at the end of the try block instead of in finally: a session is
\* released only when the attempt succeeded
QuitOnSuccessOnly ==
    /\ spc = "finally"
    /\ spc' = "idle"
    /\ IF driver = "open" /\ pending = 0
       THEN /\ driver' = "quit"
            /\ sessions' = sessions - 1
            /\ \E ok \in BOOLEAN : IF ok THEN Return ELSE Propagate("quit")
       ELSE /\ Return
            /\ UNCHANGED <<driver, sessions>>
    /\ UNCHANGED <<args, attempt, attempts, sleeps, ret, q, form, filled, soft,
                   poll, cleared, triggers, page, pending, scratch>>
    /\ UNCHANGED <<parserVars, aggVars>>

\* lines 187-189: finally: if driver: driver.quit().  An exception raised by
\* quit() replaces the pending return value.
Finally ==
    /\ spc = "finally"
    /\ spc' = "idle"
    /\ IF driver = "open"
       THEN /\ driver' = "quit"
            /\ sessions' = sessions - 1
            /\ \E ok \in BOOLEAN : IF ok THEN Return ELSE Propagate("quit")
       ELSE /\ Return
            /\ UNCHANGED <<driver, sessions>>
    /\ UNCHANGED <<args, attempt, attempts, sleeps, ret, q, form, filled, soft,
                   poll, cleared, triggers, page, pending, scratch>>
    /\ UNCHANGED <<parserVars, aggVars>>

Next ==
    \/ RunAttempt
    \/ RunExhausted
    \/ RunSuccess
    \/ RunBackoff
    \/ RunNoBackoff
    \/ Normalize
    \/ StartSession
    \/ Navigate
    \/ SafeFill
    \/ SelectModel
    \/ SelectTypes
    \/ ValidationPoll
    \/ SubmitPoll
    \/ ForceSubmit
    \/ WaitResult
    \/ RevealResults
    \/ ReadPage
    \/ Resolve
    \/ Fetch
    \/ WriteRaw
    \/ WriteInline
    \/ Except
    \/ Finally

Spec == Init /\ [][Next]_vars

(***************************************************************************)
(* extract_iri_profile_data: the profile parser (_getdata.py, lines 30-173). *)
(* A string is a sequence of one-character strings.                        *)
(***************************************************************************)
Digits == {"0", "1", "2", "3", "4", "5", "6", "7", "8", "9"}

DigitValue(c) ==
    CASE c = "0" -> 0 [] c = "1" -> 1 [] c = "2" -> 2 [] c = "3" -> 3
      [] c = "4" -> 4 [] c = "5" -> 5 [] c = "6" -> 6 [] c = "7" -> 7
      [] c = "8" -> 8 [] c = "9" -> 9

AllIn(str, chars) == \A k \in 1..Len(str) : str[k] \in chars

\* str[from..], and the last n characters of str
Drop(str, n) == SubSeq(str, n + 1, Len(str))
Last(str, n) == SubSeq(str, Len(str) - n + 1, Len(str))

\* str.lstrip(chars) and str.strip() (whitespace)
RECURSIVE LStrip(_, _)
LStrip(str, chars) ==
    IF str # << >> /\ str[1] \in chars THEN LStrip(Drop(str, 1), chars) ELSE str

RECURSIVE RStrip(_, _)
RStrip(str, chars) ==
    IF str # << >> /\ str[Len(str)] \in chars
    THEN RStrip(SubSeq(str, 1, Len(str) - 1), chars)
    ELSE str

Strip(str) == RStrip(LStrip(str, {" "}), {" "})

\* int(str) for a string of decimal digits
RECURSIVE DecimalValue(_)
DecimalValue(str) ==
    IF str = << >> THEN 0
    ELSE 10 * DecimalValue(SubSeq(str, 1, Len(str) - 1)) + DigitValue(str[Len(str)])

RECURSIVE Pow10(_)
Pow10(k) == IF k = 0 THEN 1 ELSE 10 * Pow10(k - 1)

\* the exceptions int() and float() raise on a string that is no number
IsInt(str) == str # << >> /\ AllIn(str, Digits)

Dots(str) == Cardinality({k \in 1..Len(str) : str[k] = "."})

IsFloat(str) ==
    /\ AllIn(str, Digits \cup {"."})
    /\ Dots(str) <= 1
    /\ Len(str) > Dots(str)

\* float(str) as [whole, num, den]: whole + num / den with 0 <= num < den
DotAt(str) ==
    IF Dots(str) = 0 THEN Len(str) + 1
    ELSE CHOOSE k \in 1..Len(str) : str[k] = "."

FloatValue(str) ==
    LET d == DotAt(str)
        fraction == SubSeq(str, d + 1, Len(str))
    IN  [whole |-> DecimalValue(SubSeq(str, 1, d - 1)),
         num |-> DecimalValue(fraction),
         den |-> Pow10(Len(fraction))]

(***************************************************************************)
(* The header of line 4: re.search of                                      *)
(*     (\d{4})/\s*(-?\d+)/\s*([\d\.]+)UT                                   *)
(* on a line  <year>/<doy>/<hour><tail>  whose three fields hold no "/".   *)
(***************************************************************************)
\* group 1: the four digits before the first "/"
YearGroup(line) == Last(line.year, 4)

\* group 2: the field between the slashes, after \s*
DoyGroup(line) == LStrip(line.doy, {" "})

\* group 3: the field after the second "/", after \s*
HourGroup(line) == LStrip(line.hour, {" "})

SignedDigits(str) ==
    IF str # << >> /\ str[1] = "-" THEN IsInt(Drop(str, 1)) ELSE IsInt(str)

HeaderMatches(line) ==
    /\ line.kind = "header"
    /\ Len(line.year) >= 4
    /\ AllIn(YearGroup(line), Digits)
    /\ SignedDigits(DoyGroup(line))
    /\ HourGroup(line) # << >>
    /\ AllIn(HourGroup(line), Digits \cup {"."})
    /\ line.ut

(***************************************************************************)
(* datetime arithmetic of lines 63-79, on proleptic Gregorian ordinals     *)
(* (day 1 is 0001-01-01, as datetime.toordinal).                           *)
(***************************************************************************)
\* datetime.MINYEAR..datetime.MAXYEAR
MaxYear == 9999
SecondsPerDay == 86400

IsLeap(y) == (y % 4 = 0 /\ y % 100 # 0) \/ y % 400 = 0

\* days before January 1 of year y
DaysBeforeYear(y) ==
    LET p == y - 1 IN 365 * p + (p \div 4) - (p \div 100) + (p \div 400)

MaxOrdinal == DaysBeforeYear(MaxYear + 1)

MonthLengths(y) ==
    <<31, IF IsLeap(y) THEN 29 ELSE 28, 31, 30, 31, 30, 31, 31, 30, 31, 30, 31>>

RECURSIVE DaysBeforeMonth(_, _)
DaysBeforeMonth(y, m) ==
    IF m = 1 THEN 0 ELSE DaysBeforeMonth(y, m - 1) + MonthLengths(y)[m - 1]

\* the calendar date of an ordinal in 1..MaxOrdinal
YearOf(ord) ==
    CHOOSE y \in ((ord - 1) \div 366 + 1)..((ord - 1) \div 365 + 1) :
        DaysBeforeYear(y) < ord /\ ord <= DaysBeforeYear(y + 1)

DateOf(ord) ==
    LET y == YearOf(ord)
        n == ord - DaysBeforeYear(y)
        m == CHOOSE k \in 1..12 :
                DaysBeforeMonth(y, k) < n /\ n <= DaysBeforeMonth(y, k) + MonthLengths(y)[k]
    IN  [year |-> y, month |-> m, day |-> n - DaysBeforeMonth(y, m)]

\* lines 66-71: hours = int(ut_hour); minutes = int((ut_hour - hours) * 60);
\* seconds = int(round((minutes_float - minutes) * 60)), in seconds in all
HourSeconds(h) ==
    LET minutes == (h.num * 60) \div h.den
        rest == h.num * 3600 - minutes * 60 * h.den
        seconds == (2 * rest + h.den) \div (2 * h.den)
    IN  h.whole * 3600 + minutes * 60 + seconds

\* doy_str.lstrip('-').strip()
DoyDigits(doy_str) == Strip(LStrip(doy_str, {"-"}))

\* int(doy_str): the sign of the token is kept
DoyValueSigned(doy_str) ==
    IF doy_str # << >> /\ doy_str[1] = "-"
    THEN -DecimalValue(DoyDigits(doy_str))
    ELSE DecimalValue(DoyDigits(doy_str))

\* line 58: doy = int(doy_str.lstrip('-').strip())
DoyValue(doy_str) == DecimalValue(DoyDigits(doy_str))

\* final_datetime.strftime('%Y-%m-%d %H:%M:%S'), as a record
TimeStr(ord, secs) ==
    LET date == DateOf(ord)
    IN  [year |-> date.year, month |-> date.month, day |-> date.day,
         hour |-> secs \div 3600, minute |-> (secs % 3600) \div 60,
         second |-> secs % 60]

Resolved(t) == [kind |-> "time", error |-> "", time_str |-> t]
Unresolved == [kind |-> "None", error |-> "", time_str |-> NoTime]
Raised(e) == [kind |-> "raise", error |-> e, time_str |-> NoTime]

\* lines 44-79: time_str from the lines of the file; an exception raised by a
\* conversion leaves the function (there is no handler around lines 56-79)
ResolveHeader(lines) ==
    IF Len(lines) < 4 THEN Unresolved
    ELSE IF ~HeaderMatches(lines[4]) THEN Unresolved
    ELSE LET header_line == lines[4]
             year == DecimalValue(YearGroup(header_line))
             doy_str == DoyGroup(header_line)
             ut_hour_str == HourGroup(header_line)
         IN  IF ~IsInt(DoyDigits(doy_str)) THEN Raised("ValueError")
             ELSE IF ~IsFloat(ut_hour_str) THEN Raised("ValueError")
             ELSE IF year < 1 \/ year > MaxYear THEN Raised("ValueError")
             ELSE LET date_ord == DaysBeforeYear(year) + 1 + (DoyValue(doy_str) - 1)
                      secs == HourSeconds(FloatValue(ut_hour_str))
                      final_ord == date_ord + secs \div SecondsPerDay
                  IN  IF date_ord < 1 \/ date_ord > MaxOrdinal THEN Raised("OverflowError")
                      ELSE IF final_ord > MaxOrdinal THEN Raised("OverflowError")
                      ELSE Resolved(TimeStr(final_ord, secs % SecondsPerDay))

(***************************************************************************)
(* The data rows (lines 89-126) and the table (lines 129-173).  A token is *)
(* [num, mant, exp]: a word (num = FALSE) or the number mant * 10^exp.     *)
(***************************************************************************)
Num(m, e) == [num |-> TRUE, mant |-> m, exp |-> e]
Word == [num |-> FALSE, mant |-> 0, exp |-> 0]

\* if len(parts) < 10: continue
MinTokens == 10

\* parts = cleaned_line.split() of a line; a header line splits into words
\* that hold a "/"
TokensOf(line) == IF line.kind = "data" THEN line.tokens ELSE <<Word>>

\* float(s) of a token that is a decimal numeral: "300.0" and "300" give the
\* same number, so the value keeps no trailing zero in its mantissa
RECURSIVE Float(_)
Float(v) ==
    IF ~v.num THEN v
    ELSE IF v.mant = 0 THEN Num(0, 0)
    ELSE IF v.mant % 10 = 0 THEN Float(Num(v.mant \div 10, v.exp + 1))
    ELSE v

\* the rule without float(parts[0])
AcceptedUnparsed(line) == Len(TokensOf(line)) >= MinTokens

\* lines 94-116: the line is appended to extracted_data
Accepted(line) ==
    LET parts == TokensOf(line)
    IN  /\ Len(parts) >= MinTokens
        /\ parts[1].num

RECURSIVE ExtractRows(_)
ExtractRows(lines) ==
    IF lines = << >> THEN << >>
    ELSE (IF Accepted(lines[1]) THEN <<TokensOf(lines[1])>> ELSE << >>)
            \o ExtractRows(Drop(lines, 1))

\* the keys of lines 139-155, in order
Keys ==
    <<"altitude", "Ne", "Ne/NmF2", "Tn", "Ti", "Te", "O+", "N+", "H+", "He+",
      "O2+", "NO+", "Clust", "TEC", "t/%">>

\* the composition columns multiplied by ten, not divided
UnitExponentInverted(key) ==
    CASE key = "altitude" -> 3
      [] key = "Ne" -> 6
      [] key \in {"O+", "N+", "H+", "He+", "O2+", "NO+"} -> 1
      [] key \in {"Clust", "TEC", "t/%"} -> 16
      [] OTHER -> 0

\* lines 161-171: the power of ten a column is multiplied by
UnitExponent(key) ==
    CASE key = "altitude" -> 3
      [] key = "Ne" -> 6
      [] key \in {"O+", "N+", "H+", "He+", "O2+", "NO+"} -> -1
      [] key \in {"Clust", "TEC", "t/%"} -> 16
      [] OTHER -> 0

Scaled(v, k) == Num(v.mant, v.exp + k)

\* np.array(extracted_data, dtype=float) raises ValueError on rows of
\* different lengths and on a token that is no number
Rectangular(rows) == \A r \in 1..Len(rows) : Len(rows[r]) = Len(rows[1])
Numeric(rows) == \A r \in 1..Len(rows) : \A c \in 1..Len(rows[r]) : rows[r][c].num

\* lines 157-171: one row of the returned columns, by key
TableRow(row) == [c \in 1..Len(Keys) |-> Scaled(Float(row[c]), UnitExponent(Keys[c]))]

Table(t, rows) == [kind |-> "table", error |-> "", time_str |-> t, rows |-> rows]

\* lines 30-36 on a file system entry: the path exists, ends with 'txt' and
\* can be read, and read().split('\n') gives its lines
OpenError(f) ==
    IF ~f.exists THEN "ValueError"
    ELSE IF ~f.txt THEN "ValueError"
    ELSE IF ~f.readable THEN "OSError"
    ELSE ""

\* lines 137-173 on the rows collected
Columns(t, rows) ==
    IF ~Rectangular(rows) \/ ~Numeric(rows) THEN NoTable("raise", "ValueError")
    ELSE IF Len(rows[1]) < Len(Keys) THEN NoTable("raise", "IndexError")
    ELSE Table(t, [r \in 1..Len(rows) |-> TableRow(rows[r])])

\* lines 129-173 without the test of lines 131-132
BuildTableUnguarded(t, rows) ==
    IF rows = << >> THEN Table(t, << >>) ELSE Columns(t, rows)

\* lines 129-173, with time_str resolved to t and extracted_data = rows
BuildTable(t, rows) ==
    IF rows = << >> THEN NoTable("None", "") ELSE Columns(t, rows)

\* lines 89-173
ReadTable(t, lines) == BuildTable(t, ExtractRows(lines))

\* the whole call
extract_iri_profile_data(f) ==
    IF OpenError(f) # "" THEN NoTable("raise", OpenError(f))
    ELSE LET header == ResolveHeader(f.lines)
         IN  IF header.kind = "raise" THEN NoTable("raise", header.error)
             ELSE IF header.kind = "None" THEN NoTable("None", "")
             ELSE ReadTable(header.time_str, f.lines)

\* lines 30-82: the file is opened and time_str resolved; the call ends here
\* when a line raises and when time_str is None
ParseHeader ==
    /\ ppc = "header"
    /\ IF OpenError(file) # ""
       THEN /\ result' = NoTable("raise", OpenError(file))
            /\ ppc' = "done"
            /\ UNCHANGED time_str
       ELSE LET header == ResolveHeader(file.lines)
            IN  CASE header.kind = "raise" ->
                        /\ result' = NoTable("raise", header.error)
                        /\ ppc' = "done"
                        /\ UNCHANGED time_str
                  [] header.kind = "None" ->
                        /\ result' = NoTable("None", "")
                        /\ ppc' = "done"
                        /\ UNCHANGED time_str
                  [] header.kind = "time" ->
                        /\ time_str' = header.time_str
                        /\ ppc' = "rows"
                        /\ UNCHANGED result
    /\ UNCHANGED <<file, extracted_data>>
    /\ UNCHANGED <<clientVars, aggVars>>

\* lines 89-126: every line is scanned and the data rows are collected
ParseRows ==
    /\ ppc = "rows"
    /\ extracted_data' = ExtractRows(file.lines)
    /\ ppc' = "table"
    /\ UNCHANGED <<file, time_str, result>>
    /\ UNCHANGED <<clientVars, aggVars>>

\* lines 129-173: None without rows, or the columns in MKSA units
ParseTable ==
    /\ ppc = "table"
    /\ result' = BuildTable(time_str, extracted_data)
    /\ ppc' = "done"
    /\ UNCHANGED <<file, time_str, extracted_data>>
    /\ UNCHANGED <<clientVars, aggVars>>

(***************************************************************************)
(* Files drawn for a call of extract_iri_profile_data.                     *)
(***************************************************************************)
\* number of data rows of the largest file
MaxRows == 2

TextLine == [kind |-> "data", tokens |-> <<Word, Word, Word>>]
BlankLine == [kind |-> "data", tokens |-> << >>]

Header(y, d, h, ut) == [kind |-> "header", year |-> y, doy |-> d, hour |-> h, ut |-> ut]

\* "2012", "2011", "0000", "9999", "201" and "12012"
YearFields ==
    {<<"2", "0", "1", "2">>, <<"2", "0", "1", "1">>, <<"0", "0", "0", "0">>,
     <<"9", "9", "9", "9">>, <<"2", "0", "1">>, <<"1", "2", "0", "1", "2">>}

\* "42", "-42", " 42", " -42", "0", "366", "-366", "400" and "- 42"
DoyFields ==
    {<<"4", "2">>, <<"-", "4", "2">>, <<" ", "4", "2">>, <<" ", "-", "4", "2">>,
     <<"0">>, <<"3", "6", "6">>, <<"-", "3", "6", "6">>, <<"4", "0", "0">>,
     <<"-", " ", "4", "2">>}

\* "10.0", " 10.5", "23.99", "25.5", "7", "1.2.3", "." and "x"
HourFields ==
    {<<"1", "0", ".", "0">>, <<" ", "1", "0", ".", "5">>, <<"2", "3", ".", "9", "9">>,
     <<"2", "5", ".", "5">>, <<"7">>, <<"1", ".", "2", ".", "3">>, <<".">>, <<"x">>}

HeaderLines ==
    {Header(y, d, h, ut) : y \in YearFields, d \in DoyFields, h \in HourFields,
                           ut \in BOOLEAN}

\* a data row of n tokens with altitude alt (km): alt, then the column numbers
DataRow(alt, n) ==
    [kind |-> "data",
     tokens |-> [c \in 1..n |-> IF c = 1 THEN Num(alt, 0) ELSE Num(100 + c, 0)]]

\* a row of 15 tokens whose third token is no number
BrokenRow(alt) ==
    [kind |-> "data",
     tokens |-> [c \in 1..Len(Keys) |->
                    IF c = 1 THEN Num(alt, 0) ELSE IF c = 3 THEN Word ELSE Num(100 + c, 0)]]

\* a row of the service: "300.0" km, Ne "1.0", "123" in the composition columns
ExampleRow ==
    [kind |-> "data",
     tokens |-> [c \in 1..Len(Keys) |->
                    IF c = 1 THEN Num(3000, -1)
                    ELSE IF c = 2 THEN Num(10, -1)
                    ELSE IF c \in 7..12 THEN Num(123, 0)
                    ELSE Num(100 + c, 0)]]

\* a line of text of 12 words
WordyLine == [kind |-> "data", tokens |-> [c \in 1..12 |-> Word]]

RowLines ==
    {DataRow(300, Len(Keys)), DataRow(350, Len(Keys)), DataRow(300, MinTokens),
     DataRow(300, MinTokens - 1), BrokenRow(400), TextLine, ExampleRow, WordyLine}

RECURSIVE SeqsUpTo(_, _)
SeqsUpTo(S, n) ==
    IF n = 0 THEN {<< >>}
    ELSE LET shorter == SeqsUpTo(S, n - 1)
         IN  shorter \cup {Append(b, x) : b \in {c \in shorter : Len(c) = n - 1}, x \in S}

Bodies == SeqsUpTo(RowLines, MaxRows)

\* read().split('\n') gives at least one line
ShortTexts == {<<BlankLine>>, <<TextLine, BlankLine>>, <<TextLine, TextLine, TextLine>>}

Preamble == <<TextLine, TextLine, BlankLine>>

\* a fourth line with every header once and one body; one usable header with
\* every body; no header on the fourth line
Texts ==
    ShortTexts
    \cup {Preamble \o <<h, DataRow(300, Len(Keys))>> : h \in HeaderLines}
    \cup {Preamble \o <<l>> \o b :
            l \in {Header(<<"2", "0", "1", "2">>, <<" ", "-", "4", "2">>,
                          <<"1", "0", ".", "0">>, TRUE), TextLine},
            b \in Bodies}

Files ==
    {[exists |-> TRUE, txt |-> TRUE, readable |-> TRUE, lines |-> t] : t \in Texts}
    \cup {[exists |-> e, txt |-> x, readable |-> r, lines |-> t] :
            e \in BOOLEAN, x \in BOOLEAN, r \in BOOLEAN, t \in ShortTexts}

InitParse ==
    /\ ClientIdle
    /\ AggIdle
    /\ file \in Files
    /\ ppc = "header"
    /\ time_str = NoTime
    /\ extracted_data = << >>
    /\ result = NoTable("idle", "")

NextParse ==
    \/ ParseHeader
    \/ ParseRows
    \/ ParseTable

SpecParse == InitParse /\ [][NextParse]_vars

(***************************************************************************)
(* Properties of the retry wrapper and of the attempt.                     *)
(***************************************************************************)
RunReturned == rpc = "done"
AttemptOver == spc = "idle" /\ attempts > 0
Written(name) == name \in DOMAIN form

\* C1: with max_retries = n >= 1 and every attempt failing, run_iri_profile
\* makes exactly n attempts, sleeps 5*k seconds after the k-th failed attempt
\* for k = 1..n-1, does not sleep after the last one, and returns 1.
C1_BackoffSchedule ==
    LET n == args.max_retries
    IN  /\ \A k \in 1..Len(sleeps) : sleeps[k] = 5 * k
        /\ (n >= 1 /\ rpc = "loop") =>
              Len(sleeps) = (IF attempt < n THEN attempt ELSE n - 1)
        /\ (n >= 1 /\ RunReturned /\ status # 0) =>
              /\ ret = 1
              /\ attempts = n
              /\ Len(sleeps) = n - 1

\* three failed attempts with max_retries = 3: sleeps of 5s and 10s, return 1
C1_Witness ==
    /\ RunReturned
    /\ args.max_retries = 3
    /\ attempts = 3
    /\ status = 1
    /\ sleeps = <<5, 10>>
    /\ ret = 1

\* C2: run_iri_profile calls the attempt at most max_retries times and returns
\* 0 at the first attempt that returns 0: the successful attempt is the last
\* one made, only earlier (failed) attempts were followed by a sleep, and 0 is
\* returned only after a successful attempt.
C2_FirstSuccessReturns ==
    LET n == args.max_retries
    IN  /\ attempts <= (IF n > 0 THEN n ELSE 0)
        /\ status = 0 =>
              /\ rpc \in {"status", "done"}
              /\ attempts = attempt + 1
              /\ Len(sleeps) = attempt
              /\ RunReturned => ret = 0
        /\ (RunReturned /\ ret = 0) => status = 0

\* the second of three allowed attempts succeeded: one sleep, no third attempt
C2_Witness ==
    /\ RunReturned
    /\ args.max_retries = 3
    /\ ret = 0
    /\ attempts = 2
    /\ sleeps = <<5>>

\* C3: no fault leaves the attempt: whatever step raises, the attempt ends
\* with the value 1, and run_iri_profile returns 0 or 1.
C3_NoFaultPropagates ==
    /\ rpc # "raised"
    /\ (AttemptOver /\ faultAt # "none") => status = 1
    /\ RunReturned => ret \in {0, 1}

\* C4: every session an attempt acquired has had quit() invoked on it when
\* the attempt is over, whether it returned 0, returned 1 or caught a fault;
\* none is open when run_iri_profile returns.
C4_SessionReleased ==
    /\ sessions \in {0, 1}
    /\ sessions = 1 <=> driver = "open"
    /\ spc = "idle" => sessions = 0
    /\ RunReturned => sessions = 0

\* an attempt that acquired a session and then caught a fault is over, and the
\* session was released
C4_Witness ==
    /\ AttemptOver
    /\ rpc = "status"
    /\ faultAt = "wait"
    /\ status = 1
    /\ driver = "quit"
    /\ sessions = 0

\* C5: the longitude written to the form is in [0,360) and the latitude
\* written to the form is in [-90,90], whatever the input.
C5_CoordinatesInRange ==
    /\ Written("lon") =>
          /\ ~form["lon"].neg
          /\ form["lon"].int < 360
    /\ Written("lat") =>
          \/ form["lat"].int < 90
          \/ form["lat"].int = 90 /\ form["lat"].micro = 0

\* C6: the altitude bounds written to the form are in [0,2000] km and the
\* step written to the form is in (0,500] km, whatever the input.
C6_AltitudesInRange ==
    /\ Written("start") => form["start"].tenths \in 0..(2000 * 10)
    /\ Written("stop") => form["stop"].tenths \in 0..(2000 * 10)
    /\ Written("step") => form["step"].tenths \in 1..(500 * 10)

\* out-of-range bounds and step were clamped and written
C6_Witness ==
    /\ args.min_alt < 0
    /\ args.max_alt > 2000 * AltUnit
    /\ args.step_alt <= 0
    /\ Written("start") /\ form["start"].tenths = 0
    /\ Written("stop") /\ form["stop"].tenths = 2000 * 10
    /\ Written("step") /\ form["step"].tenths = 10

\* C7: a field that cannot be populated does not abort the attempt: once field
\* population is over, all six fields were attempted, and no attempt ended
\* because of a field.
C7_FieldFailureNotFatal ==
    (filled # << >> /\ spc # "fill") =>
        /\ filled = Fields
        /\ faultAt # "fill"

(***************************************************************************)
(* Properties of the parser.                                               *)
(***************************************************************************)
ParseReturned == ppc = "done"
HeaderResolved == ppc \in {"rows", "table", "done"} /\ time_str # NoTime

\* the header 2012/ -42/10.0UT
ExampleHeader ==
    Header(<<"2", "0", "1", "2">>, <<" ", "-", "4", "2">>, <<"1", "0", ".", "0">>, TRUE)

\* the day-of-year field with the sign of its number changed
RECURSIVE DigitsOf(_)
DigitsOf(str) ==
    IF str = << >> THEN << >>
    ELSE (IF str[1] \in Digits THEN <<str[1]>> ELSE << >>) \o DigitsOf(Drop(str, 1))

OtherSign(doy) ==
    IF \E k \in 1..Len(doy) : doy[k] = "-" THEN DigitsOf(doy) ELSE <<"-">> \o DigitsOf(doy)

\* whole days from January 1 of year y to the date of t, and t's time of day
DaysSince(y, t) ==
    DaysBeforeYear(t.year) + DaysBeforeMonth(t.year, t.month) + t.day
        - (DaysBeforeYear(y) + 1)
SecondOfDay(t) == t.hour * 3600 + t.minute * 60 + t.second

\* C8: extract_iri_profile_data returns None, and does not raise, when the
\* path is missing, when the path is no text file, and when the text has fewer
\* than 4 lines.
C8_FailsSoft ==
    (/\ ParseReturned
     /\ \/ ~file.exists
        \/ ~file.txt
        \/ (OpenError(file) = "" /\ Len(file.lines) < 4))
    => result.kind = "None"

\* C9: the time resolved from the header of line 4 is January 1 of the year
\* plus (|doy| - 1) days plus the hour, the same for the header with the other
\* sign on its day-of-year; 2012/ -42/10.0UT resolves to 2012-02-11 10:00:00,
\* day 42 of 2012.
C9_SignDiscarded ==
    HeaderResolved =>
        LET h == file.lines[4]
            year == DecimalValue(Last(h.year, 4))
            days == DecimalValue(DigitsOf(h.doy))
            hour == FloatValue(LStrip(h.hour, {" "}))
            other == [file.lines EXCEPT ![4].doy = OtherSign(h.doy)]
            \* the hour in units of 1/hour.den seconds, and its whole days
            ticks == (hour.whole * hour.den + hour.num) * 3600
            over == ticks \div (86400 * hour.den)
        IN  /\ DaysSince(year, time_str) = (days - 1) + over
            /\ SecondOfDay(time_str) * hour.den = ticks - over * 86400 * hour.den
            /\ ResolveHeader(other).kind = "time"
            /\ ResolveHeader(other).time_str = time_str
            /\ h = ExampleHeader =>
                  time_str = [year |-> 2012, month |-> 2, day |-> 11,
                              hour |-> 10, minute |-> 0, second |-> 0]
            /\ (ParseReturned /\ result.kind = "table") => result.time_str = time_str

\* the table of a file whose fourth line is 2012/ -42/10.0UT was returned
C9_Witness ==
    /\ ParseReturned
    /\ Len(file.lines) >= 4
    /\ file.lines[4] = ExampleHeader
    /\ result.kind = "table"
    /\ result.time_str = [year |-> 2012, month |-> 2, day |-> 11,
                          hour |-> 10, minute |-> 0, second |-> 0]

\* C10: when the file was read and no time could be resolved from line 4 (no
\* header there, or a header whose year, day-of-year or hour cannot be
\* converted), extract_iri_profile_data returns None and does not raise.
C10_UnusableHeaderGivesNone ==
    (ParseReturned /\ OpenError(file) = "" /\ time_str = NoTime)
    => result.kind = "None"

(***************************************************************************)
(* Properties of the rows and of the table.                                *)
(***************************************************************************)
RowsScanned == ppc \in {"table", "done"} /\ time_str # NoTime
TableReturned == ParseReturned /\ result.kind = "table"

\* the positions of the lines of the file that have at least 10 tokens, the
\* first of them a numeral
DataLines ==
    {n \in 1..Len(file.lines) :
        /\ file.lines[n].kind = "data"
        /\ Len(file.lines[n].tokens) >= 10
        /\ file.lines[n].tokens[1].num}

\* the place of data line n among the data lines
Rank(n) == Cardinality({m \in DataLines : m <= n})

\* b = a * 10^k, for numbers a and b
TimesPowerOfTen(a, k, b) ==
    LET d == (a.exp + k) - b.exp
    IN  /\ a.num /\ b.num
        /\ IF d >= 0 THEN a.mant * Pow10(d) = b.mant ELSE a.mant = b.mant * Pow10(-d)

\* a < b, for numbers a and b
LessThan(a, b) ==
    LET m == IF a.exp < b.exp THEN a.exp ELSE b.exp
    IN  a.mant * Pow10(a.exp - m) < b.mant * Pow10(b.exp - m)

\* C11: with time_str resolved, the lines collected as data rows are exactly
\* the lines with at least 10 whitespace-separated tokens whose first token
\* is a numeral, every other line is skipped, and a returned table has one row
\* per such line, in the order of the lines of the text.
C11_RowsAreDataLines ==
    RowsScanned =>
        /\ Len(extracted_data) = Cardinality(DataLines)
        /\ \A n \in DataLines : extracted_data[Rank(n)] = file.lines[n].tokens
        /\ TableReturned =>
              /\ Len(result.rows) = Cardinality(DataLines)
              /\ \A n \in DataLines :
                    TimesPowerOfTen(file.lines[n].tokens[1], 3, result.rows[Rank(n)][1])

\* a table of one row was returned for a text that also holds a line of
\* nine numerals
C11_Witness ==
    /\ TableReturned
    /\ Len(result.rows) = 1
    /\ \E n \in 1..Len(file.lines) : file.lines[n] = DataRow(300, MinTokens - 1)

\* C12: the altitudes of a returned table are strictly increasing; a text
\* whose data rows repeat an altitude or are out of order is not returned as
\* a table.
C12_AltitudesIncrease ==
    TableReturned =>
        \A r \in 1..(Len(result.rows) - 1) :
            LessThan(result.rows[r][1], result.rows[r + 1][1])

\* C13: for every text with a resolvable header the call returns None or a
\* table whose rows all have the 15 columns, and does not raise; this holds
\* for data rows of 10 to 14 tokens, of differing lengths, and with a token
\* after the first that is no numeral.
C13_NoneOrFullTable ==
    (ParseReturned /\ time_str # NoTime) =>
        /\ result.kind \in {"None", "table"}
        /\ result.kind = "table" =>
              \A r \in 1..Len(result.rows) : Len(result.rows[r]) = 15

\* the factor of each of the 15 columns, as a power of ten
UnitPowers == <<3, 6, 0, 0, 0, 0, -1, -1, -1, -1, -1, -1, 16, 16, 16>>

max_alt == 2000
\* res_alt=50
DefaultResAlt == 50

NaN == [num |-> FALSE, mant |-> 0, exp |-> 0]

\* a test that finds no np.nan
isnanNever(x) == FALSE

\* np.isnan(x)
isnan(x) == ~x.num

\* x >= y
GreaterOrEqual(x, y) == x.num /\ y.num /\ ~LessThan(x, y)

\* x > y; a comparison with np.nan is False
Greater(x, y) == x.num /\ y.num /\ LessThan(y, x)

\* np.where(alt > max_alt, np.nan, values), element by element
WhereAbove(altitudes, values) ==
    [k \in 1..Len(values) |->
        IF Greater(altitudes[k], Num(max_alt, 0)) THEN NaN ELSE values[k]]

\* alt *= 1e3; np.nan stays np.nan
ToMetres(v) == IF isnan(v) THEN NaN ELSE Scaled(Float(v), 3)

\* -m, for a magnitude m
Negated(m) ==
    IF m.frac = 0 THEN D(-m.int, 0) ELSE D(-m.int - 1, FracUnit - m.frac)

\* np.fmod(x, 360): the remainder has the sign of x
Fmod(x) == IF x.int >= 0 THEN ModTurn(x) ELSE Negated(ModTurn(Magnitude(x)))

\* the value of v in units of 10^m
InUnits(v, m) == v.mant * Pow10(v.exp - m)

\* np.abs(a - b) in units of 10^m
AbsDiff(a, b, m) ==
    LET d == InUnits(a, m) - InUnits(b, m)
    IN  IF d < 0 THEN -d ELSE d

\* the last row at the smallest distance
ArgMinLast(alt_data, x) ==
    LET m == CHOOSE e \in {x.exp} \cup {alt_data[k].exp : k \in 1..Len(alt_data)} :
                \A k \in 1..Len(alt_data) : e <= alt_data[k].exp /\ e <= x.exp
        least(k) == \A j \in 1..Len(alt_data) :
                        AbsDiff(alt_data[k], x, m) <= AbsDiff(alt_data[j], x, m)
    IN  CHOOSE k \in 1..Len(alt_data) :
            least(k) /\ \A j \in 1..Len(alt_data) : least(j) => j <= k

\* np.argmin(np.abs(alt_data - x)): the first index of the smallest distance
\* (counted from 1)
ArgMin(alt_data, x) ==
    LET m == CHOOSE e \in {x.exp} \cup {alt_data[k].exp : k \in 1..Len(alt_data)} :
                \A k \in 1..Len(alt_data) : e <= alt_data[k].exp /\ e <= x.exp
        least(k) == \A j \in 1..Len(alt_data) :
                        AbsDiff(alt_data[k], x, m) <= AbsDiff(alt_data[j], x, m)
    IN  CHOOSE k \in 1..Len(alt_data) :
            least(k) /\ \A j \in 1..Len(alt_data) : least(j) => k <= j

\* dict_data[key] of a returned table: the column, by the place of key in Keys
Column(table, key) ==
    LET c == CHOOSE n \in 1..Len(Keys) : Keys[n] = key
    IN  [r \in 1..Len(table.rows) |-> table.rows[r][c]]

\* vars = ['Ne', 'O+', 'N+', 'H+', 'He+', 'O2+', 'NO+']
Vars == <<"Ne", "O+", "N+", "H+", "He+", "O2+", "NO+">>

\* the variables of the client that getdata does not reach
clientRest == <<args, rpc, attempt, attempts, sleeps, status, spc, q, driver, form,
                filled, soft, faultAt, poll, cleared, triggers, page, pending, sessions>>

\* the lengths differ only when times is the longer
LengthsExceed(times, rmlatmlt) == Len(times) > rmlatmlt.shape[1]

\* len(times) != len(rmlatmlt)
LengthsDiffer(times, rmlatmlt) == Len(times) # rmlatmlt.shape[1]

\* a test that takes the status of a failed run for success
FailedBelowZero(r) == r < 0

\* if ret != 0
Failed(r) == r # 0

\* a loop that stays on its timestep
SameIndex(k) == k

\* for i in range(len(times)): the timestep after timestep k
NextIndex(k) == k + 1

\* getdata returns (None, or dict_return) or raises
Returns(kind, e) ==
    /\ greturn' = [kind |-> kind, error |-> e]
    /\ gpc' = "done"

\* lines 30-33: the lengths of times and rmlatmlt are compared
CheckLengths ==
    /\ gpc = "lengths"
    /\ IF LengthsDiffer(gargs.times, gargs.rmlatmlt)
       THEN Returns("None", "")
       ELSE gpc' = "shape" /\ UNCHANGED greturn
    /\ UNCHANGED <<gargs, geom, arrays, loop, dict_return, dict_data, calls, written>>
    /\ UNCHANGED <<clientVars, parserVars>>

\* lines 35-37: 'ndim != 2 and shape[1] != 3'; shape[1] is read only when
\* ndim != 2, and raises IndexError on an array of one dimension
CheckShape ==
    /\ gpc = "shape"
    /\ LET rmlatmlt == gargs.rmlatmlt
       IN  IF rmlatmlt.ndim = 2 THEN gpc' = "columns" /\ UNCHANGED greturn
           ELSE IF Len(rmlatmlt.shape) < 2 THEN Returns("raise", "IndexError")
           ELSE IF rmlatmlt.shape[2] # 3 THEN Returns("None", "")
           ELSE gpc' = "columns" /\ UNCHANGED greturn
    /\ UNCHANGED <<gargs, geom, arrays, loop, dict_return, dict_data, calls, written>>
    /\ UNCHANGED <<clientVars, parserVars>>

\* lines 39-41: rmlatmlt[:, 0], [:, 1] and [:, 2]
TakeColumns ==
    /\ gpc = "columns"
    /\ IF gargs.rmlatmlt.shape[2] < 3
       THEN Returns("raise", "IndexError")
       ELSE gpc' = "transform" /\ UNCHANGED greturn
    /\ UNCHANGED <<gargs, geom, arrays, loop, dict_return, dict_data, calls, written>>
    /\ UNCHANGED <<clientVars, parserVars>>

\* lines 43-67: geom2rmlatmlt gives alt, lat and lon; altitudes above max_alt
\* become np.nan (lat and lon are tested against the altitudes that are
\* already np.nan), alt goes to metres and lon through fmod(lon + 360, 360)
Transform ==
    /\ gpc = "transform"
    /\ LET n == Len(geom)
           alt0 == [k \in 1..n |-> geom[k].alt]
           alt1 == WhereAbove(alt0, alt0)
           lat1 == WhereAbove(alt1, [k \in 1..n |-> geom[k].lat])
           lon1 == WhereAbove(alt1, [k \in 1..n |-> geom[k].lon])
       IN  arrays' = [alt |-> [k \in 1..n |-> ToMetres(alt1[k])],
                      lat |-> lat1,
                      lon |-> [k \in 1..n |-> Fmod(AddTurn(lon1[k]))]]
    /\ dict_return' = EmptyLists
    /\ loop' = 1
    /\ gpc' = "loop"
    /\ UNCHANGED <<gargs, geom, dict_data, calls, written, greturn>>
    /\ UNCHANGED <<clientVars, parserVars>>

\* line 43: geom2rmlatmlt raises
TransformRaises ==
    /\ gpc = "transform"
    /\ Returns("raise", "Exception")
    /\ UNCHANGED <<gargs, geom, arrays, loop, dict_return, dict_data, calls, written>>
    /\ UNCHANGED <<clientVars, parserVars>>

\* lines 68-75: a timestep whose altitude is np.nan is passed over
Skip ==
    /\ gpc = "loop"
    /\ loop <= Len(gargs.times)
    /\ isnan(arrays.alt[loop])
    /\ loop' = NextIndex(loop)
    /\ UNCHANGED <<gargs, geom, gpc, arrays, dict_return, dict_data, calls, written,
                   greturn>>
    /\ UNCHANGED <<clientVars, parserVars>>

\* a data row of the service: the altitude, then numbers that tell the row
ProfileRow(altitude, tag) ==
    [kind |-> "data",
     tokens |-> [c \in 1..Len(Keys) |-> IF c = 1 THEN altitude ELSE Num(100 * tag + c, 0)]]

\* the texts the service answers with: rows at 250 and 350 km; rows at 350,
\* 250 and 350 km; a text without header; a row of 10 tokens
ServiceTexts ==
    {Preamble \o <<ExampleHeader, ProfileRow(Num(250, 0), 1), ProfileRow(Num(350, 0), 2)>>,
     Preamble \o <<ExampleHeader, ProfileRow(Num(3500, -1), 1), ProfileRow(Num(250, 0), 2),
                   ProfileRow(Num(350, 0), 3)>>,
     <<TextLine, TextLine, TextLine>>,
     Preamble \o <<ExampleHeader, DataRow(300, MinTokens)>>}

\* coord_type.lower(), for the names that hold a capital
Lower(name) ==
    CASE name = "Geographic" -> "geographic"
      [] name = "Geomagnetic" -> "geomagnetic"
      [] name = "GEOG" -> "geog"
      [] OTHER -> name

\* _downloader.py lines 117-118: coord_text_map.get(coord_type.lower(),
\* "Geomagnetic"), the option an attempt selects in coordinateType
coord_text(coord_type) ==
    CASE Lower(coord_type) = "geom" -> "Geomagnetic"
      [] Lower(coord_type) = "geog" -> "Geographic"
      [] Lower(coord_type) = "geomagnetic" -> "Geomagnetic"
      [] Lower(coord_type) = "geographic" -> "Geographic"
      [] OTHER -> "Geomagnetic"

\* the arguments of the call of lines 76-84
RunCall ==
    [i |-> loop,
     date_time |-> gargs.times[loop],
     longitude |-> arrays.lon[loop],
     latitude |-> arrays.lat[loop],
     coord_type |-> "geom",
     output_filename |-> ".temporal_iri_profile_output.txt",
     step_alt |-> gargs.res_alt]

\* a run that returns 0 and leaves output_filename as it was
CallSucceedsUnwritten ==
    /\ gpc = "loop"
    /\ loop <= Len(gargs.times)
    /\ ~isnan(arrays.alt[loop])
    /\ calls' = Append(calls, RunCall)
    /\ ret' = 0
    /\ gpc' = "returned"
    /\ UNCHANGED <<gargs, geom, arrays, loop, dict_return, dict_data, greturn>>
    /\ UNCHANGED <<scratch, written, clientRest, parserVars>>

\* lines 76-84: run_iri_profile is called for timestep i and returns 0 after
\* an attempt wrote the answer of the service to output_filename
CallSucceeds ==
    /\ gpc = "loop"
    /\ loop <= Len(gargs.times)
    /\ ~isnan(arrays.alt[loop])
    /\ calls' = Append(calls, RunCall)
    /\ ret' = 0
    /\ scratch' \in {"raw", "inline"}
    /\ \E text \in ServiceTexts : written' = [by |-> loop, lines |-> text]
    /\ gpc' = "returned"
    /\ UNCHANGED <<gargs, geom, arrays, loop, dict_return, dict_data, greturn>>
    /\ UNCHANGED <<clientRest, parserVars>>

\* lines 76-84: run_iri_profile returns 1 after its attempts failed; the file
\* is as it was, or was opened for writing and left empty
CallFails ==
    /\ gpc = "loop"
    /\ loop <= Len(gargs.times)
    /\ ~isnan(arrays.alt[loop])
    /\ calls' = Append(calls, RunCall)
    /\ ret' = 1
    /\ \/ UNCHANGED <<scratch, written>>
       \/ scratch' = "truncated" /\ written' = [by |-> loop, lines |-> <<BlankLine>>]
    /\ gpc' = "returned"
    /\ UNCHANGED <<gargs, geom, arrays, loop, dict_return, dict_data, greturn>>
    /\ UNCHANGED <<clientRest, parserVars>>

\* lines 76-84: run_iri_profile raises (driver.quit() raised in finally)
CallRaises ==
    /\ gpc = "loop"
    /\ loop <= Len(gargs.times)
    /\ ~isnan(arrays.alt[loop])
    /\ calls' = Append(calls, RunCall)
    /\ Returns("raise", "WebDriverException")
    /\ UNCHANGED <<gargs, geom, arrays, loop, dict_return, dict_data, written>>
    /\ UNCHANGED <<clientVars, parserVars>>

\* lines 85-87: the run failed and getdata returns None
Abort ==
    /\ gpc = "returned"
    /\ Failed(ret)
    /\ Returns("None", "")
    /\ UNCHANGED <<gargs, geom, arrays, loop, dict_return, dict_data, calls, written>>
    /\ UNCHANGED <<clientVars, parserVars>>

\* output_filename as extract_iri_profile_data finds it
ScratchFile ==
    [exists |-> scratch # "absent", txt |-> TRUE, readable |-> TRUE,
     lines |-> written.lines]

\* line 88: the file is parsed
Parse ==
    /\ gpc = "returned"
    /\ ~Failed(ret)
    /\ LET data == extract_iri_profile_data(ScratchFile)
       IN  /\ dict_data' = data
           /\ IF data.kind = "raise"
              THEN Returns("raise", data.error)
              ELSE gpc' = "record" /\ UNCHANGED greturn
    /\ UNCHANGED <<gargs, geom, arrays, loop, dict_return, calls, written>>
    /\ UNCHANGED <<clientVars, parserVars>>

\* lines 89-94: the time, the requested altitude and the values of the
\* nearest row are appended; dict_data['altitude'] raises TypeError on None
Record ==
    /\ gpc = "record"
    /\ IF dict_data.kind = "None"
       THEN /\ dict_return' =
                  [dict_return EXCEPT !["times"] = Append(@, gargs.times[loop])]
            /\ Returns("raise", "TypeError")
            /\ UNCHANGED loop
       ELSE LET alt_data == Column(dict_data, "altitude")
                idx_to_get == ArgMin(alt_data, arrays.alt[loop])
            IN  /\ dict_return' =
                      [k \in DOMAIN dict_return |->
                          Append(dict_return[k],
                                 IF k = "times" THEN gargs.times[loop]
                                 ELSE IF k = "altitude" THEN arrays.alt[loop]
                                 ELSE Column(dict_data, k)[idx_to_get])]
                /\ loop' = NextIndex(loop)
                /\ gpc' = "loop"
                /\ UNCHANGED greturn
    /\ UNCHANGED <<gargs, geom, arrays, dict_data, calls, written>>
    /\ UNCHANGED <<clientVars, parserVars>>

\* lines 96-104: the lists become arrays, output_filename is removed
\* (FileNotFoundError when it is not there) and dict_return is returned
Finish ==
    /\ gpc = "loop"
    /\ loop > Len(gargs.times)
    /\ IF scratch = "absent"
       THEN Returns("raise", "FileNotFoundError") /\ UNCHANGED <<scratch, written>>
       ELSE Returns("dict", "") /\ scratch' = "absent" /\ written' = NoText
    /\ UNCHANGED <<gargs, geom, arrays, loop, dict_return, dict_data, calls>>
    /\ UNCHANGED <<clientRest, ret, parserVars>>

(***************************************************************************)
(* Series drawn for a call of getdata.                                     *)
(***************************************************************************)
\* number of timesteps of the longest series
MaxSteps == 2

\* times[k], in unix seconds: one minute apart
TimeOf(k) == 60 * k

\* what geom2rmlatmlt gives for a timestep: 300 km; 2000 km with a longitude
\* below -360; 2000.5 km; 2500 km; 340.4 km
Places ==
    {[alt |-> Num(300, 0), lat |-> Deg(45), lon |-> Deg(10)],
     [alt |-> Num(2000, 0), lat |-> Deg(-30), lon |-> Deg(-400)],
     [alt |-> Num(20005, -1), lat |-> Deg(60), lon |-> Deg(370)],
     [alt |-> Num(2500, 0), lat |-> Deg(0), lon |-> Deg(0)],
     [alt |-> Num(3404, -1), lat |-> D(-89, 9 * Micro), lon |-> D(359, 9999996)]}

DefaultPlace == [alt |-> Num(300, 0), lat |-> Deg(45), lon |-> Deg(10)]

\* rmlatmlt of n rows: one dimension; two dimensions of 2, 3 or 4 columns;
\* three dimensions with 2 or 3 as the second
Shapes(n) ==
    {[ndim |-> 1, shape |-> <<n>>],
     [ndim |-> 2, shape |-> <<n, 2>>],
     [ndim |-> 2, shape |-> <<n, 3>>],
     [ndim |-> 2, shape |-> <<n, 4>>],
     [ndim |-> 3, shape |-> <<n, 2, 1>>],
     [ndim |-> 3, shape |-> <<n, 3, 1>>]}

Series(n, rmlatmlt, places) ==
    [times |-> [k \in 1..n |-> TimeOf(k)], rmlatmlt |-> rmlatmlt,
     res_alt |-> DefaultResAlt, geom |-> places]

\* every shape and both lengths of rmlatmlt over the same places; every
\* sequence of places under a well-formed rmlatmlt
SeriesInputs ==
    {Series(n, r, [k \in 1..n |-> DefaultPlace]) :
        n \in 0..MaxSteps, r \in UNION {Shapes(m) : m \in 0..(MaxSteps + 1)}}
    \cup {Series(Len(g), [ndim |-> 2, shape |-> <<Len(g), 3>>], g) :
            g \in SeqsUpTo(Places, MaxSteps)}

\* the text an earlier call of getdata left in output_filename
StaleText ==
    Preamble \o <<ExampleHeader, ProfileRow(Num(250, 0), 1), ProfileRow(Num(350, 0), 2)>>

\* getdata is called; output_filename is absent, or is there from an earlier
\* call that did not remove it
InitAgg ==
    /\ \E output \in {"absent", "raw"} :
          /\ ClientAtRest(output)
          /\ written = IF output = "absent" THEN NoText
                       ELSE [by |-> 0, lines |-> StaleText]
    /\ ParserIdle
    /\ \E s \in {x \in SeriesInputs :
                    x.rmlatmlt.shape[1] \in {Len(x.times), Len(x.times) + 1}} :
          /\ gargs = [times |-> s.times, rmlatmlt |-> s.rmlatmlt, res_alt |-> s.res_alt]
          /\ geom = s.geom
    /\ gpc = "lengths"
    /\ arrays = NoArrays
    /\ loop = 0
    /\ dict_return = EmptyLists
    /\ dict_data = NoTable("idle", "")
    /\ calls = << >>
    /\ greturn = NoReturn

NextAgg ==
    \/ CheckLengths
    \/ CheckShape
    \/ TakeColumns
    \/ Transform
    \/ TransformRaises
    \/ Skip
    \/ CallSucceeds
    \/ CallFails
    \/ CallRaises
    \/ Abort
    \/ Parse
    \/ Record
    \/ Finish

SpecAgg == InitAgg /\ [][NextAgg]_vars

(***************************************************************************)
(* Properties of getdata.                                                  *)
(***************************************************************************)
GetdataReturned == gpc = "done"

\* the entry appended last to a list
Newest(list) == list[Len(list)]

\* the calls of run_iri_profile made for timestep k
CallsFor(k) == {n \in 1..Len(calls) : calls[n].i = k}

\* C16: getdata called with len(times) != len(rmlatmlt) returns None, does
\* not raise, and calls run_iri_profile not once.
C16_LengthMismatchReported ==
    Len(gargs.times) # gargs.rmlatmlt.shape[1] =>
        /\ calls = << >>
        /\ GetdataReturned => greturn.kind = "None"

\* None was returned for two timesteps and three coordinate rows of 3 columns
C16_Witness ==
    /\ GetdataReturned
    /\ Len(gargs.times) = 2
    /\ gargs.rmlatmlt = [ndim |-> 2, shape |-> <<3, 3>>]
    /\ greturn.kind = "None"
    /\ calls = << >>

\* rmlatmlt has two dimensions and 3 columns
WellShaped ==
    /\ gargs.rmlatmlt.ndim = 2
    /\ Len(gargs.rmlatmlt.shape) = 2
    /\ gargs.rmlatmlt.shape[2] = 3

\* C17: getdata called with an rmlatmlt that is not of two dimensions with 3
\* columns (one dimension, three dimensions, or two dimensions with another
\* number of columns) returns None, does not raise, and calls
\* run_iri_profile not once.
C17_ShapeErrorReported ==
    (gpc # "idle" /\ ~WellShaped) =>
        /\ calls = << >>
        /\ GetdataReturned => greturn.kind = "None"

\* the altitude geom2rmlatmlt gave for timestep k is above 2000 km
Above(k) == LessThan(Num(2000, 0), geom[k].alt)

\* the entries of a list of dict_return
Entries(key) == {dict_return[key][n] : n \in 1..Len(dict_return[key])}

\* the loop is past timestep k
Past(k) ==
    \/ loop > k /\ gpc \in {"loop", "returned", "record"}
    \/ GetdataReturned /\ greturn.kind = "dict"

\* C18: for a timestep whose transformed altitude is above 2000 km
\* run_iri_profile is not called and nothing is appended to a list of
\* dict_return; for a timestep at or below 2000 km it is called exactly once
\* (when getdata did not return before).
C18_OneCallPerValidTimestep ==
    gpc \notin {"idle", "lengths", "shape", "columns", "transform"} =>
        /\ \A key \in DOMAIN dict_return : Len(dict_return[key]) <= Len(calls)
        /\ \A k \in 1..Len(geom) :
              IF Above(k)
              THEN /\ CallsFor(k) = {}
                   /\ gargs.times[k] \notin Entries("times")
              ELSE /\ Cardinality(CallsFor(k)) <= 1
                   /\ Past(k) => Cardinality(CallsFor(k)) = 1

\* dict_return was returned for a timestep at 2000 km and one at 2000.5 km
C18_Witness ==
    /\ GetdataReturned
    /\ greturn.kind = "dict"
    /\ Len(geom) = 2
    /\ geom[1].alt = Num(2000, 0)
    /\ geom[2].alt = Num(20005, -1)
    /\ Len(calls) = 1
    /\ Len(dict_return["Ne"]) = 1

\* an altitude in metres, as an integer
Metres(v) == v.mant * Pow10(v.exp)
Distance(v, w) ==
    IF Metres(v) >= Metres(w) THEN Metres(v) - Metres(w) ELSE Metres(w) - Metres(v)

\* the place of each quantity among the 15 columns of the table
VarColumns == <<<<"Ne", 2>>, <<"O+", 7>>, <<"N+", 8>>, <<"H+", 9>>, <<"He+", 10>>,
                <<"O2+", 11>>, <<"NO+", 12>>>>

\* the lists of dict_return hold the entry of the table in dict_data
Recorded ==
    /\ dict_data.kind = "table"
    /\ Len(dict_return["NO+"]) >= 1
    /\ \/ gpc \in {"loop", "returned"}
       \/ GetdataReturned /\ greturn.kind \in {"dict", "None"}

\* C19: the quantities recorded for a timestep are those of the row of the
\* profile whose altitude is nearest to the altitude requested for the
\* timestep, both in metres, and of the first such row when several rows are
\* equally near.
C19_NearestRowRecorded ==
    Recorded =>
        LET x == Newest(dict_return["altitude"])
            k == CHOOSE k \in 1..Len(gargs.times) :
                    gargs.times[k] = Newest(dict_return["times"])
            rows == dict_data.rows
        IN  /\ TimesPowerOfTen(geom[k].alt, 3, x)
            /\ \E r \in 1..Len(rows) :
                  /\ \A j \in 1..Len(rows) :
                        Distance(rows[r][1], x) <= Distance(rows[j][1], x)
                  /\ \A j \in 1..(r - 1) :
                        Distance(rows[j][1], x) > Distance(rows[r][1], x)
                  /\ \A n \in 1..Len(VarColumns) :
                        Newest(dict_return[VarColumns[n][1]]) = rows[r][VarColumns[n][2]]

\* for 300 km and rows at 350, 250 and 350 km the first row was recorded
C19_Witness ==
    /\ Recorded
    /\ Newest(dict_return["altitude"]) = Num(3, 5)
    /\ Len(dict_data.rows) = 3
    /\ Newest(dict_return["Ne"]) = dict_data.rows[1][2]
    /\ Newest(dict_return["Ne"]) # dict_data.rows[3][2]

\* C20: when run_iri_profile returns 1 for a timestep, getdata calls it for
\* no later timestep and returns None, not the lists collected so far.
C20_FailureAborts ==
    ret = 1 =>
        /\ gpc \in {"returned", "done"}
        /\ GetdataReturned => greturn.kind = "None"
        /\ calls # << >>
        /\ \A n \in 1..Len(calls) : calls[n].i <= Newest(calls).i
        /\ Newest(calls).i = loop

\* None was returned after the first of two timesteps below 2000 km failed
C20_Witness ==
    /\ GetdataReturned
    /\ ret = 1
    /\ greturn.kind = "None"
    /\ Len(gargs.times) = 2
    /\ ~isnan(arrays.alt[2])
    /\ Len(calls) = 1
    /\ calls[1].i = 1

\* getdata returned None or dict_return after its loop was entered
ReturnedFromLoop ==
    /\ GetdataReturned
    /\ greturn.kind \in {"dict", "None"}
    /\ loop >= 1

\* C21: when getdata has entered its loop and returns, output_filename does
\* not exist afterwards, after a completed loop and after a loop that a
\* failed run ended.
C21_ScratchRemoved ==
    ReturnedFromLoop => scratch = "absent"

\* C22: when run_iri_profile returned 0 for a timestep and
\* extract_iri_profile_data returns None for the file, getdata returns None,
\* does not raise, and does not call run_iri_profile again for the timestep.
C22_UnparsedAborts ==
    (GetdataReturned /\ dict_data.kind = "None") =>
        /\ greturn.kind = "None"
        /\ Cardinality(CallsFor(loop)) = 1

\* the rows of the table in dict_data whose quantities were recorded last
MatchedRows ==
    {r \in 1..Len(dict_data.rows) :
        \A n \in 1..Len(VarColumns) :
            Newest(dict_return[VarColumns[n][1]]) = dict_data.rows[r][VarColumns[n][2]]}

\* C23: a sample of the output holds the altitude requested for its timestep
\* and the altitude of the row that was selected, with the requested time and
\* the quantities of that row.
C23_BothAltitudesRecorded ==
    Recorded =>
        LET k == CHOOSE k \in 1..Len(gargs.times) :
                    gargs.times[k] = Newest(dict_return["times"])
            lists == DOMAIN dict_return \ {"times"}
        IN  /\ MatchedRows # {}
            /\ \E key \in lists :
                  TimesPowerOfTen(geom[k].alt, 3, Newest(dict_return[key]))
            /\ \A r \in MatchedRows :
                  \E key \in lists : Newest(dict_return[key]) = dict_data.rows[r][1]

\* the timesteps whose transformed altitude is at most 2000 km
ValidSteps == {k \in 1..Len(geom) : ~Above(k)}

\* C24: a returned dict_return holds one sample per timestep at or below
\* 2000 km and none for the others, in the order of times: every list has as
\* many entries as there are such timesteps, and the k-th entry of 'times' is
\* the time of the k-th of them.
C24_OneSamplePerValidStep ==
    (GetdataReturned /\ greturn.kind = "dict") =>
        /\ \A key \in DOMAIN dict_return :
              Len(dict_return[key]) = Cardinality(ValidSteps)
        /\ \A k \in ValidSteps :
              dict_return["times"][Cardinality({j \in ValidSteps : j <= k})]
                  = gargs.times[k]

\* dict_return was returned for a timestep at 2500 km followed by one at 300 km
C24_Witness ==
    /\ GetdataReturned
    /\ greturn.kind = "dict"
    /\ Len(geom) = 2
    /\ geom[1].alt = Num(2500, 0)
    /\ geom[2].alt = Num(300, 0)
    /\ dict_return["times"] = <<gargs.times[2]>>
    /\ Len(dict_return["altitude"]) = 1

(***************************************************************************)
(* Properties of the steps of one attempt.                                 *)
(***************************************************************************)
\* C25: a failure to select the model version, and a failure to select the
\* time type or the coordinate type, does not end the attempt: whatever the
\* selection steps meet, the attempt goes on to the validation poll, from
\* where the submission is reached.
C25_SelectionFailureNotFatal ==
    [][/\ spc = "model" => (spc' = "types" /\ faultAt' = faultAt /\ pending' = pending)
       /\ spc = "types" => (spc' = "validate" /\ faultAt' = faultAt /\ pending' = pending)
       /\ faultAt' \notin {"model", "types"}]_vars

\* both selections failed and the submission was triggered
C25_Witness ==
    /\ soft = {"model", "types"}
    /\ triggers # << >>
    /\ faultAt = "none"

\* C26: the validation poll looks for the error indicator at most 10 times,
\* ends at the first check that finds none, and, cleared or not after the
\* tenth check, is followed by the poll of the submit button.
C26_ValidationPollBounded ==
    [][spc = "validate" =>
          /\ poll < 10
          /\ ~cleared
          /\ faultAt' = faultAt =>
                IF cleared' THEN spc' = "monitor"
                ELSE IF poll < 9 THEN spc' = "validate" /\ poll' = poll + 1
                ELSE spc' = "monitor"]_vars

\* the poll of the submit button was reached with the indicator never cleared
C26_Witness ==
    /\ spc = "monitor"
    /\ ~cleared
    /\ poll = 0
    /\ faultAt = "none"

\* the positions of an attempt between the submission and the return
Submitted == spc \in {"wait", "reveal", "read", "resolve", "fetch", "writeraw", "writepre"}

\* C27: the poll of the submit button checks it at most 30 times, one second
\* apart (poll counts the sleeps of one second); an enabled button is clicked
\* at the first check that finds it enabled, and a button disabled at all 30
\* checks is followed by the forced submission; an attempt that is past the
\* poll has triggered the submission exactly once, by the click or by the
\* script, never by both.
C27_SubmittedExactlyOnce ==
    /\ [](/\ Len(triggers) <= 1
          /\ Submitted => Len(triggers) = 1
          /\ spc \in {"monitor", "force"} => triggers = << >>
          /\ spc = "monitor" => poll < 30)
    /\ [][/\ (spc = "monitor" /\ faultAt' = faultAt) =>
                IF triggers' # triggers
                THEN triggers' = <<"click">> /\ spc' = "wait"
                ELSE IF poll < 29 THEN spc' = "monitor" /\ poll' = poll + 1
                ELSE spc' = "force"
          /\ (spc = "force" /\ faultAt' = faultAt) =>
                (triggers' = <<"force">> /\ spc' = "wait")
          /\ (spc' = "force" /\ spc # "force") => (spc = "monitor" /\ poll = 29)]_vars

\* the attempt waits for the result after a forced submission
C27_Witness ==
    /\ spc = "wait"
    /\ triggers = <<"force">>

\* C28: an attempt returns 0 only after the text fetched from the link with a
\* target was written to output_filename, or, without such a link, after an
\* inline <pre> text of more than 100 characters was written; with neither it
\* returns 1 and output_filename is not written.
C28_TwoWaysToSucceed ==
    /\ pending = 0 =>
          /\ page # NoPage
          /\ \/ page.link = "href" /\ scratch = "raw"
             \/ page.link # "href" /\ page.pre > 100 /\ scratch = "inline"
    /\ (page # NoPage /\ page.link # "href" /\ page.pre <= 100
            /\ spc \in {"finally", "idle"}) =>
          /\ pending = 1
          /\ scratch \notin {"raw", "inline"}

\* an attempt returns 0 with the inline text of 101 characters written, on a
\* page whose link has no target
C28_Witness ==
    /\ pending = 0
    /\ page = [link |-> "nohref", pre |-> 101]
    /\ scratch = "inline"

\* C29: getdata works through the timesteps one after the other over the one
\* file: run_iri_profile is called for a timestep only after every earlier
\* call was followed by the parse of the file and the recording of its
\* sample, the file is parsed only after the call for the same timestep
\* returned 0, and a sample is recorded only after that parse; no two calls of
\* run_iri_profile overlap.
C29_StrictlySequential ==
    [][/\ calls' # calls =>
             /\ gpc = "loop"
             /\ Len(calls') = Len(calls) + 1
             /\ Newest(calls').i = loop
             /\ calls # << >> => Newest(calls).i < loop
             /\ \A key \in DOMAIN dict_return : Len(dict_return[key]) = Len(calls)
       /\ dict_data' # dict_data =>
             /\ gpc = "returned"
             /\ ret = 0
             /\ Newest(calls).i = loop
             /\ written.by = loop
       /\ dict_return' # dict_return =>
             /\ gpc = "record"
             /\ Newest(calls).i = loop
             /\ calls' = calls]_vars

\* dict_return was returned with the samples of two timesteps
C29_Witness ==
    /\ GetdataReturned
    /\ greturn.kind = "dict"
    /\ Len(calls) = 2
    /\ Len(dict_return["Ne"]) = 2

(***************************************************************************)
(* Termination of run_iri_profile.  The program is one thread that runs    *)
(* its next statement, and every call into the browser or the network      *)
(* returns or raises (page-load timeout, WebDriverWait(driver, 60),        *)
(* requests timeout=60): a step that is possible is taken.                 *)
(***************************************************************************)
InitTerm ==
    /\ \E a \in RetryQueries : ClientCalled(a)
    /\ ParserIdle
    /\ AggIdle

SpecTerm == InitTerm /\ [][Next]_vars /\ WF_vars(Next)

\* C30: every attempt ends, and run_iri_profile ends after at most
\* max_retries attempts and at most max_retries - 1 sleeps (none of either
\* for max_retries < 1), whatever the browser and the service answer.
C30_RunTerminates ==
    /\ [](/\ attempts <= (IF args.max_retries >= 1 THEN args.max_retries ELSE 0)
          /\ Len(sleeps) <= (IF args.max_retries >= 1 THEN args.max_retries - 1 ELSE 0)
          /\ poll < 30)
    /\ (spc # "idle") ~> (spc = "idle")
    /\ <>(rpc \in {"done", "raised"})

\* run_iri_profile returned after max_retries failed attempts
C30_Witness ==
    /\ rpc = "done"
    /\ args.max_retries = MaxRetries
    /\ attempts = MaxRetries
    /\ Len(sleeps) = MaxRetries - 1

(***************************************************************************)
(* Properties of the coordinates getdata works with.                       *)
(***************************************************************************)
\* the arrays alt, lat and lon exist
Transformed == gpc \in {"loop", "returned", "record"}

\* v is np.nan
IsNaN(v) == "num" \in DOMAIN v /\ ~v.num

\* C31: before the loop, every timestep whose transformed altitude is above
\* 2000 km has np.nan as its altitude, as its latitude and as its longitude.
C31_InvalidEntriesAllNaN ==
    Transformed =>
        \A k \in 1..Len(geom) :
            Above(k) =>
                /\ IsNaN(arrays.alt[k])
                /\ IsNaN(arrays.lat[k])
                /\ IsNaN(arrays.lon[k])

\* C33: every call of run_iri_profile that getdata makes has the attempts
\* select the Geographic frame, the frame of the latitude and longitude that
\* geom2rmlatmlt gave and that getdata passes on.
C33_GeographicFrameSelected ==
    \A n \in 1..Len(calls) : coord_text(calls[n].coord_type) = "Geographic"

\* C34: whatever longitude geom2rmlatmlt gives (below -360 and above 360
\* included), the longitude getdata passes to run_iri_profile is at least 0
\* and below 360.
C34_LongitudePassedInRange ==
    \A n \in 1..Len(calls) :
        /\ calls[n].longitude.int >= 0
        /\ calls[n].longitude.int < 360

\* C35: when getdata parses output_filename for a timestep, the text in it
\* was written by the call of run_iri_profile for that timestep, which
\* returned 0; a text left by an earlier timestep, by an earlier call of
\* getdata or by a failed attempt is not parsed and gives no sample.
C35_ParsedTextIsFresh ==
    gpc = "record" =>
        /\ ret = 0
        /\ written.by = loop
        /\ Newest(calls).i = loop
        /\ scratch \in {"raw", "inline"}
        /\ dict_data = extract_iri_profile_data(
                          [exists |-> TRUE, txt |-> TRUE, readable |-> TRUE,
                           lines |-> written.lines])

\* the text of the second timestep was parsed, over the text of the first
C35_Witness ==
    /\ gpc = "record"
    /\ loop = 2
    /\ Len(calls) = 2
    /\ written.by = 2
    /\ dict_data.kind = "table"
    /\ Len(dict_return["Ne"]) = 1

\* C36: getdata called with arguments that pass its tests and with no
\* timestep at or below 2000 km (no timestep at all, or every altitude above)
\* calls run_iri_profile not once and returns dict_return with empty lists,
\* without raising, also when output_filename was never written.
C36_NoValidTimestepGivesEmpty ==
    (GetdataReturned /\ loop >= 1 /\ ValidSteps = {}) =>
        /\ calls = << >>
        /\ greturn.kind = "dict"
        /\ \A key \in DOMAIN dict_return : dict_return[key] = << >>

(***************************************************************************)
(* Properties of the attempt and of the retry wrapper, continued.          *)
(***************************************************************************)
\* C32: a latitude within [-90, 90], an altitude bound within [0, 2000] and a
\* step within (0, 500] reach the form with the value that was passed in
\* (in the decimals of the format).
C32_InRangeInputUnchanged ==
    /\ (Written("lat") /\ LeD(Deg(-90), args.latitude) /\ LeD(args.latitude, Deg(90)))
          => form["lat"] = Fixed6(args.latitude)
    /\ (Written("start") /\ 0 <= args.min_alt /\ args.min_alt <= 2000 * AltUnit)
          => form["start"] = [tenths |-> Fixed1(args.min_alt)]
    /\ (Written("stop") /\ 0 <= args.max_alt /\ args.max_alt <= 2000 * AltUnit)
          => form["stop"] = [tenths |-> Fixed1(args.max_alt)]
    /\ (Written("step") /\ 0 < args.step_alt /\ args.step_alt <= 500 * AltUnit)
          => form["step"] = [tenths |-> Fixed1(args.step_alt)]

\* C37: when the page holds a raw/download link with a target and fetching
\* it fails, the attempt returns 1; the inline <pre> text is not used and
\* output_filename is not written.
C37_FetchFailureNoFallback ==
    faultAt = "fetch" =>
        /\ page.link = "href"
        /\ spc \in {"except", "finally", "idle"}
        /\ pending \in {-1, 1}
        /\ scratch \notin {"raw", "inline"}
        /\ (spc = "idle" /\ rpc # "raised") => status = 1

\* an attempt returned 1 after the fetch failed on a page that also holds an
\* inline text of 101 characters
C37_Witness ==
    /\ faultAt = "fetch"
    /\ page = [link |-> "href", pre |-> 101]
    /\ spc = "idle"
    /\ status = 1

\* C38: run_iri_profile called with max_retries <= 0 makes no attempt, takes
\* no sleep and returns 1.
C38_NoRetriesNoAttempt ==
    (rpc # "idle" /\ args.max_retries <= 0) =>
        /\ attempts = 0
        /\ sleeps = << >>
        /\ spc = "idle"
        /\ rpc \in {"loop", "done"}
        /\ rpc = "done" => ret = 1

\* run_iri_profile returned 1 for max_retries = -1
C38_Witness ==
    /\ rpc = "done"
    /\ args.max_retries = -1
    /\ ret = 1
    /\ attempts = 0

====
